---- MODULE Spec2Model ----
(***************************************************************************)
(* Model of the prop-edge-finder computation core: odds conversion, vig    *)
(* removal, market consensus, EV scoring (lib/evCalculator.ts and the      *)
(* older lib/ev-calculations.ts), the EV service (services/evService.ts)   *)
(* and the odds normalizer (lib/oddsNormalizer.ts).                        *)
(*                                                                         *)
(* Numbers.  A JavaScript number is modelled as a record [n, d]: an exact  *)
(* rational n/d in lowest terms when d > 0, and the three non-finite       *)
(* values when d = 0 (NaN = 0/0, Infinity = 1/0, -Infinity = -1/0).        *)
(* Arithmetic is exact: IEEE-754 rounding is not modelled, so an equality  *)
(* below is the equality the specification states "within floating         *)
(* tolerance".                                                             *)
(*                                                                         *)
(* Calls.  The library is stateless: a behaviour is one call.  `call`      *)
(* holds the function applied and its arguments, `ret` what it returned    *)
(* or threw ([throw |-> message]).                                         *)
(***************************************************************************)
EXTENDS Integers, Sequences, FiniteSets, TLC

VARIABLES call, ret

vars == <<call, ret>>

\* ------------------------------------------------------------------------
\* Bounds of the model
\* ------------------------------------------------------------------------

\* American odds passed to the single-odds functions range over -MaxOdds..MaxOdds.
MaxOdds == 200

\* Probabilities passed directly are the fractions a/b with b <= GridDen.
GridDen == 4

\* A quote group holds at most MaxBooks quotes.
MaxBooks == 3

\* ------------------------------------------------------------------------
\* JavaScript numbers
\* ------------------------------------------------------------------------

MathAbsInt(i) == IF i < 0 THEN -i ELSE i

RECURSIVE GCD(_, _)
GCD(a, b) == IF b = 0 THEN a ELSE GCD(b, a % b)

\* n/d for d > 0, in lowest terms.
Frac(n, d) ==
  LET g == GCD(MathAbsInt(n), d)
  IN  [n |-> n \div g, d |-> d \div g]

Num(i) == [n |-> i, d |-> 1]

NaN == [n |-> 0, d |-> 0]
Infinity == [n |-> 1, d |-> 0]
NegInfinity == [n |-> -1, d |-> 0]

IsNaN(x) == x.n = 0 /\ x.d = 0
IsFinite(x) == x.d > 0
SignOf(x) == IF x.n > 0 THEN 1 ELSE IF x.n < 0 THEN -1 ELSE 0
InfOfSign(s) == IF s < 0 THEN NegInfinity ELSE Infinity

Neg(x) == [n |-> -x.n, d |-> x.d]

\* a + b
Add(a, b) ==
  IF IsNaN(a) \/ IsNaN(b) THEN NaN
  ELSE IF ~IsFinite(a) THEN (IF ~IsFinite(b) /\ b # a THEN NaN ELSE a)
  ELSE IF ~IsFinite(b) THEN b
  ELSE LET g == GCD(a.d, b.d)
       IN  Frac(a.n * (b.d \div g) + b.n * (a.d \div g), (a.d \div g) * b.d)

\* a - b
Sub(a, b) == Add(a, Neg(b))

\* a * b
Mul(a, b) ==
  IF IsNaN(a) \/ IsNaN(b) THEN NaN
  ELSE IF ~IsFinite(a) \/ ~IsFinite(b)
       THEN (IF SignOf(a) = 0 \/ SignOf(b) = 0 THEN NaN
             ELSE InfOfSign(SignOf(a) * SignOf(b)))
  ELSE LET g1 == GCD(MathAbsInt(a.n), b.d)
           g2 == GCD(MathAbsInt(b.n), a.d)
       IN  Frac((a.n \div g1) * (b.n \div g2), (a.d \div g2) * (b.d \div g1))

\* a / b, with JavaScript's results for a zero or non-finite divisor
\* (the divisors of this code are never -0).
Div(a, b) ==
  IF IsNaN(a) \/ IsNaN(b) THEN NaN
  ELSE IF ~IsFinite(b) THEN (IF ~IsFinite(a) THEN NaN ELSE Num(0))
  ELSE IF ~IsFinite(a) THEN InfOfSign(SignOf(a) * (IF SignOf(b) < 0 THEN -1 ELSE 1))
  ELSE IF b.n = 0 THEN (IF a.n = 0 THEN NaN ELSE InfOfSign(SignOf(a)))
  ELSE Mul(a, [n |-> SignOf(b) * b.d, d |-> MathAbsInt(b.n)])

\* a < b (false when either is NaN)
Less(a, b) ==
  IF IsNaN(a) \/ IsNaN(b) \/ a = b THEN FALSE
  ELSE IF a = NegInfinity \/ b = Infinity THEN TRUE
  ELSE IF a = Infinity \/ b = NegInfinity THEN FALSE
  ELSE Sub(a, b).n < 0

\* a <= b, a > b, a >= b
Leq(a, b) == ~IsNaN(a) /\ ~IsNaN(b) /\ (a = b \/ Less(a, b))
Greater(a, b) == Less(b, a)
Geq(a, b) == Leq(b, a)

MathAbs(x) == IF x.n < 0 THEN Neg(x) ELSE x
MathMin(a, b) == IF IsNaN(a) \/ IsNaN(b) THEN NaN ELSE IF Less(b, a) THEN b ELSE a
MathMax(a, b) == IF IsNaN(a) \/ IsNaN(b) THEN NaN ELSE IF Less(a, b) THEN b ELSE a

\* ------------------------------------------------------------------------
\* Thrown errors
\* ------------------------------------------------------------------------

Throw(msg) == [throw |-> msg]
IsThrow(x) == "throw" \in DOMAIN x

\* What an async method settles with: Resolved(value), or the error thrown.
\* A loop that builds a list yields Resolved(list) or the error as well.
Resolved(v) == [value |-> v]

\* ------------------------------------------------------------------------
\* lib/evCalculator.ts (the "Central EV Engine")
\* ------------------------------------------------------------------------

\* convertAmericanToProbability with the favourite's formula applied to
\* the magnitude of every price.
convertAmericanToProbability_magnitudeOnly(odds) ==
  IF odds = 0 THEN Throw("Odds cannot be zero")
  ELSE Div(Num(MathAbsInt(odds)), Num(MathAbsInt(odds) + 100))

convertAmericanToProbability(odds) ==
  IF odds = 0 THEN Throw("Odds cannot be zero")
  ELSE IF odds > 0 THEN Div(Num(100), Num(odds + 100))
  ELSE LET positiveOdds == MathAbsInt(odds)
       IN  Div(Num(positiveOdds), Num(positiveOdds + 100))

\* convertAmericanToDecimal without the stake: the profit per unit staked.
convertAmericanToDecimal_profitOnly(odds) ==
  IF odds > 0 THEN Div(Num(odds), Num(100))
  ELSE Div(Num(100), Num(MathAbsInt(odds)))

convertAmericanToDecimal(odds) ==
  IF odds > 0 THEN Add(Div(Num(odds), Num(100)), Num(1))
  ELSE Add(Div(Num(100), Num(MathAbsInt(odds))), Num(1))

\* removeVig with the normalisation of the under side left out.
removeVig_underNotNormalised(overImplied, underImplied) ==
  LET total == Add(overImplied, underImplied)
  IN  IF total = Num(0) THEN Throw("Invalid probabilities")
      ELSE [over |-> Div(overImplied, total),
            under |-> underImplied,
            vigPercent |-> Mul(Sub(total, Num(1)), Num(100))]

removeVig(overImplied, underImplied) ==
  LET total == Add(overImplied, underImplied)
  IN  IF total = Num(0) THEN Throw("Invalid probabilities")
      ELSE [over |-> Div(overImplied, total),
            under |-> Div(underImplied, total),
            vigPercent |-> Mul(Sub(total, Num(1)), Num(100))]

\* The body of calculateMarketConsensus's for loop over props[i..]: the
\* totals after the loop, or the error a conversion throws.
RECURSIVE consensusTotals(_, _, _, _)
consensusTotals(props, i, totalOver, totalUnder) ==
  IF i > Len(props) THEN [totalOver |-> totalOver, totalUnder |-> totalUnder]
  ELSE LET overImplied == convertAmericanToProbability(props[i].overOdds)
       IN  IF IsThrow(overImplied) THEN overImplied
           ELSE LET underImplied == convertAmericanToProbability(props[i].underOdds)
                IN  IF IsThrow(underImplied) THEN underImplied
                    ELSE LET devigged == removeVig(overImplied, underImplied)
                         IN  IF IsThrow(devigged) THEN devigged
                             ELSE consensusTotals(props, i + 1,
                                                  Add(totalOver, devigged.over),
                                                  Add(totalUnder, devigged.under))

calculateMarketConsensus(props) ==
  IF Len(props) = 0 THEN Throw("No books for consensus")
  ELSE LET totals == consensusTotals(props, 1, Num(0), Num(0))
       IN  IF IsThrow(totals) THEN totals
           ELSE [over |-> Div(totals.totalOver, Num(Len(props))),
                 under |-> Div(totals.totalUnder, Num(Len(props))),
                 confidence |-> MathMin(Frac(19, 20),
                                        Add(Frac(1, 2), Mul(Num(Len(props)), Frac(1, 10)))),
                 sampleSize |-> Len(props)]

\* The rating calculateEV derives from the edge.
ratingOf(edgePercent) ==
  IF Geq(edgePercent, Num(5)) THEN "Strong"
  ELSE IF Geq(edgePercent, Num(2)) THEN "Moderate"
  ELSE "Low"

\* What calculateEV returns once its argument check has passed.
evResult(trueProbability, implied, decimal, stake) ==
  LET payout == Mul(stake, decimal)
      winAmount == Sub(payout, stake)
      loseAmount == stake
      loseProbability == Sub(Num(1), trueProbability)
      expectedValue == Sub(Mul(trueProbability, winAmount),
                           Mul(loseProbability, loseAmount))
      edgePercent == Mul(Sub(Div(trueProbability, implied), Num(1)), Num(100))
  IN  [trueProbability |-> trueProbability,
       edgePercent |-> edgePercent,
       expectedValue |-> expectedValue,
       rating |-> ratingOf(edgePercent)]

\* calculateEV with the win amount taken to be the whole payout.
calculateEV_payoutAsWin(trueProbability, bookOdds, stake) ==
  IF Leq(trueProbability, Num(0)) \/ Geq(trueProbability, Num(1))
  THEN Throw("True probability must be between 0 and 1")
  ELSE LET implied == convertAmericanToProbability(bookOdds)
       IN  IF IsThrow(implied) THEN implied
           ELSE evResult(trueProbability, implied,
                         Add(convertAmericanToDecimal(bookOdds), Num(1)), stake)

calculateEV(trueProbability, bookOdds, stake) ==
  IF Leq(trueProbability, Num(0)) \/ Geq(trueProbability, Num(1))
  THEN Throw("True probability must be between 0 and 1")
  ELSE LET implied == convertAmericanToProbability(bookOdds)
       IN  IF IsThrow(implied) THEN implied
           ELSE evResult(trueProbability, implied,
                         convertAmericanToDecimal(bookOdds), stake)

\* The earlier calculateEV of the same file: it accepts 0 and 1 and
\* computes the decimal odds inline.
calculateEV_v1(trueProbability, bookOdds, stake) ==
  IF Less(trueProbability, Num(0)) \/ Greater(trueProbability, Num(1))
  THEN Throw("True probability must be between 0 and 1")
  ELSE LET impliedProbability == convertAmericanToProbability(bookOdds)
       IN  IF IsThrow(impliedProbability) THEN impliedProbability
           ELSE evResult(trueProbability, impliedProbability,
                         IF bookOdds > 0
                         THEN Add(Div(Num(bookOdds), Num(100)), Num(1))
                         ELSE Add(Div(Num(100), Num(MathAbsInt(bookOdds))), Num(1)),
                         stake)


\* removeVig of the older evCalculator.
removeVig_v1(overProb, underProb) ==
  LET total == Add(overProb, underProb)
  IN  IF total = Num(0) THEN Throw("Total probability cannot be zero")
      ELSE [over |-> Div(overProb, total),
            under |-> Div(underProb, total),
            vigPercent |-> Mul(Sub(total, Num(1)), Num(100))]

\* The for loop of the older calculateMarketConsensus over props[i..].
RECURSIVE consensusTotals_v1(_, _, _, _)
consensusTotals_v1(props, i, totalOverProb, totalUnderProb) ==
  IF i > Len(props) THEN [totalOver |-> totalOverProb, totalUnder |-> totalUnderProb]
  ELSE LET overImplied == convertAmericanToProbability(props[i].overOdds)
       IN  IF IsThrow(overImplied) THEN overImplied
           ELSE LET underImplied == convertAmericanToProbability(props[i].underOdds)
                IN  IF IsThrow(underImplied) THEN underImplied
                    ELSE LET devigged == removeVig_v1(overImplied, underImplied)
                         IN  IF IsThrow(devigged) THEN devigged
                             ELSE consensusTotals_v1(props, i + 1,
                                                     Add(totalOverProb, devigged.over),
                                                     Add(totalUnderProb, devigged.under))

\* calculateMarketConsensus of the older evCalculator.
calculateMarketConsensus_v1(props) ==
  IF Len(props) = 0 THEN Throw("No props provided for consensus calculation")
  ELSE LET totals == consensusTotals_v1(props, 1, Num(0), Num(0))
       IN  IF IsThrow(totals) THEN totals
           ELSE [over |-> Div(totals.totalOver, Num(Len(props))),
                 under |-> Div(totals.totalUnder, Num(Len(props))),
                 confidence |-> MathMin(Frac(19, 20),
                                        Add(Frac(1, 2), Mul(Num(Len(props)), Frac(1, 10)))),
                 sampleSize |-> Len(props)]

\* calculateKelly without the clamp at 0.
calculateKelly_unclamped(trueProbability, americanOdds) ==
  Div(Sub(Mul(Sub(convertAmericanToDecimal(americanOdds), Num(1)), trueProbability),
          Sub(Num(1), trueProbability)),
      Sub(convertAmericanToDecimal(americanOdds), Num(1)))

\* kellyOf(b, p, q): Math.max(0, (b * p - q) / b)
kellyOf(b, p, q) == MathMax(Num(0), Div(Sub(Mul(b, p), q), b))

\* calculateKelly of the older evCalculator: it checks neither argument.
calculateKelly(trueProbability, americanOdds) ==
  kellyOf(Sub(IF americanOdds > 0
              THEN Add(Div(Num(americanOdds), Num(100)), Num(1))
              ELSE Add(Div(Num(100), MathAbs(Num(americanOdds))), Num(1)),
              Num(1)),
          trueProbability, Sub(Num(1), trueProbability))

\* ------------------------------------------------------------------------
\* lib/ev-calculations.ts (the older utilities, still used by the mock data
\* and the player detail modal)
\* ------------------------------------------------------------------------

americanToDecimal(american) ==
  IF american > 0 THEN Add(Div(Num(american), Num(100)), Num(1))
  ELSE Add(Div(Num(100), Num(MathAbsInt(american))), Num(1))

americanToImpliedProbability(american) ==
  IF american > 0 THEN Div(Num(100), Num(american + 100))
  ELSE Div(Num(MathAbsInt(american)), Num(MathAbsInt(american) + 100))

\* removeVig of ev-calculations.ts: takes the two odds, checks nothing.
evc_removeVig(overOdds, underOdds) ==
  LET overImplied == americanToImpliedProbability(overOdds)
      underImplied == americanToImpliedProbability(underOdds)
      total == Add(overImplied, underImplied)
  IN  [overProb |-> Div(overImplied, total),
       underProb |-> Div(underImplied, total)]

RECURSIVE evc_consensusTotals(_, _, _, _)
evc_consensusTotals(odds, i, totalProb, totalLine) ==
  IF i > Len(odds) THEN [totalProb |-> totalProb, totalLine |-> totalLine]
  ELSE evc_consensusTotals(odds, i + 1,
         Add(totalProb, evc_removeVig(odds[i].overOdds, odds[i].underOdds).overProb),
         Add(totalLine, odds[i].line))

evc_calculateMarketConsensus(odds) ==
  IF Len(odds) = 0 THEN [consensusProb |-> Frac(1, 2), consensusLine |-> Num(0)]
  ELSE LET totals == evc_consensusTotals(odds, 1, Num(0), Num(0))
       IN  [consensusProb |-> Div(totals.totalProb, Num(Len(odds))),
            consensusLine |-> Div(totals.totalLine, Num(Len(odds)))]

\* EV% = (trueProbability * decimalOdds - 1) * 100
evc_calculateEV(trueProbability, americanOdds) ==
  Mul(Sub(Mul(trueProbability, americanToDecimal(americanOdds)), Num(1)), Num(100))

evc_calculateEdge(trueProbability, americanOdds) ==
  Mul(Sub(trueProbability, americanToImpliedProbability(americanOdds)), Num(100))

\* Math.round
MathRound(x) == Num((2 * x.n + x.d) \div (2 * x.d))

RECURSIVE sumLines(_, _)
sumLines(odds, i) == IF i = 0 THEN Num(0) ELSE Add(sumLines(odds, i - 1), odds[i].line)

RECURSIVE sumSquares(_, _, _)
sumSquares(odds, avgLine, i) ==
  IF i = 0 THEN Num(0)
  ELSE Add(sumSquares(odds, avgLine, i - 1),
           Mul(Sub(odds[i].line, avgLine), Sub(odds[i].line, avgLine)))

evc_calculateConfidence(odds, evPct) ==
  IF Len(odds) = 0 THEN Num(0)
  ELSE LET bookFactor == Mul(MathMin(Div(Num(Len(odds)), Num(5)), Num(1)), Num(30))
           avgLine == Div(sumLines(odds, Len(odds)), Num(Len(odds)))
           variance == Div(sumSquares(odds, avgLine, Len(odds)), Num(Len(odds)))
           agreementFactor == MathMax(Num(0), Sub(Num(30), Mul(variance, Num(10))))
           edgeFactor == MathMin(Mul(MathAbs(evPct), Num(4)), Num(40))
       IN  MathRound(MathMin(Add(Add(bookFactor, agreementFactor), edgeFactor), Num(100)))

\* ------------------------------------------------------------------------
\* lib/mock-data.ts
\* ------------------------------------------------------------------------

\* The search of generateMockEVCalculations over allOdds[i..]: `best` is
\* the running (bestEV, bestBook, bestDirection, bestTrueProb, bestOdds).
RECURSIVE mockBestLoop(_, _, _, _)
mockBestLoop(allOdds, consensusProb, i, best) ==
  IF i > Len(allOdds) THEN best
  ELSE LET snap == allOdds[i]
           overEV == evc_calculateEV(consensusProb, snap.over_odds)
           afterOver == IF Greater(overEV, best.bestEV)
                        THEN [bestEV |-> overEV, bestBook |-> snap,
                              bestDirection |-> "Over", bestTrueProb |-> consensusProb,
                              bestOdds |-> snap.over_odds]
                        ELSE best
           underProb == Sub(Num(1), consensusProb)
           underEV == evc_calculateEV(underProb, snap.under_odds)
           afterUnder == IF Greater(underEV, afterOver.bestEV)
                         THEN [bestEV |-> underEV, bestBook |-> snap,
                               bestDirection |-> "Under", bestTrueProb |-> underProb,
                               bestOdds |-> snap.under_odds]
                         ELSE afterOver
       IN  mockBestLoop(allOdds, consensusProb, i + 1, afterUnder)

\* The EVCalculation generateMockEVCalculations builds for one prop
\* definition, given its lines (one per sportsbook, at least one).
mockEVCalculation(playerId, statType, lines) ==
  LET marketOdds == [i \in 1 .. Len(lines) |->
                       [overOdds |-> lines[i].over_odds,
                        underOdds |-> lines[i].under_odds, line |-> lines[i].line]]
      c == evc_calculateMarketConsensus(marketOdds)
      best == mockBestLoop(lines, c.consensusProb, 1,
                [bestEV |-> NegInfinity, bestBook |-> lines[1], bestDirection |-> "Over",
                 bestTrueProb |-> c.consensusProb, bestOdds |-> lines[1].over_odds])
  IN  [player_id |-> playerId,
       stat_type |-> statType,
       best_sportsbook |-> best.bestBook.sportsbook,
       best_line |-> best.bestBook.line,
       best_odds |-> best.bestOdds,
       market_consensus_line |-> c.consensusLine,
       market_consensus_prob |-> c.consensusProb,
       implied_prob |-> Num(0),
       true_prob |-> best.bestTrueProb,
       edge_pct |-> evc_calculateEdge(best.bestTrueProb, best.bestOdds),
       ev_pct |-> best.bestEV,
       confidence_score |-> evc_calculateConfidence(marketOdds, best.bestEV),
       direction |-> best.bestDirection,
       all_odds |-> lines]

\* ------------------------------------------------------------------------
\* Inputs
\* ------------------------------------------------------------------------

OddsRange == (-MaxOdds) .. MaxOdds

\* The fractions a/b, b <= GridDen, between -1 and 2: probabilities in and
\* out of range, zero included.
ProbGrid == { Frac(a, b) : a \in (-GridDen) .. (2 * GridDen), b \in 1 .. GridDen }

\* Odds quoted in a group.
QuoteOdds == {-110, 100, 150}

Sportsbooks == <<"BetMGM", "Caesars", "DraftKings", "FanDuel", "PrizePicks">>

\* The props argument of calculateMarketConsensus: 0..MaxBooks quotes.
PropsOf(pairs) ==
  [i \in 1 .. Len(pairs) |->
     [sportsbook |-> Sportsbooks[((i - 1) % Len(Sportsbooks)) + 1],
      overOdds |-> pairs[i][1], underOdds |-> pairs[i][2], line |-> Frac(57, 2)]]

QuotePairSeqs(S) == UNION { [1 .. k -> S \X S] : k \in 0 .. MaxBooks }

\* ------------------------------------------------------------------------
\* Calls of the consensus functions
\* ------------------------------------------------------------------------

Idle == [fn |-> "idle"]
NoRet == [none |-> TRUE]

Init == call = Idle /\ ret = NoRet

CallConvertAmericanToProbability ==
  /\ call = Idle
  /\ \E o \in OddsRange :
       /\ call' = [fn |-> "convertAmericanToProbability", odds |-> o]
       /\ ret' = convertAmericanToProbability(o)

CallAmericanToImpliedProbability ==
  /\ call = Idle
  /\ \E o \in OddsRange :
       /\ call' = [fn |-> "americanToImpliedProbability", odds |-> o]
       /\ ret' = americanToImpliedProbability(o)

CallRemoveVig ==
  /\ call = Idle
  /\ \E p \in ProbGrid, q \in ProbGrid :
       /\ call' = [fn |-> "removeVig", overImplied |-> p, underImplied |-> q]
       /\ ret' = removeVig(p, q)

CallEvcRemoveVig ==
  /\ call = Idle
  /\ \E o \in QuoteOdds \cup {0}, u \in QuoteOdds \cup {0} :
       /\ call' = [fn |-> "evc_removeVig", overOdds |-> o, underOdds |-> u]
       /\ ret' = evc_removeVig(o, u)

CallCalculateMarketConsensus ==
  /\ call = Idle
  /\ \E pairs \in QuotePairSeqs(QuoteOdds) :
       /\ call' = [fn |-> "calculateMarketConsensus", props |-> PropsOf(pairs)]
       /\ ret' = calculateMarketConsensus(PropsOf(pairs))

CallEvcCalculateMarketConsensus ==
  /\ call = Idle
  /\ \E pairs \in QuotePairSeqs(QuoteOdds) :
       /\ call' = [fn |-> "evc_calculateMarketConsensus", props |-> PropsOf(pairs)]
       /\ ret' = evc_calculateMarketConsensus(PropsOf(pairs))

CallCalculateMarketConsensus_v1 ==
  /\ call = Idle
  /\ \E pairs \in QuotePairSeqs(QuoteOdds) :
       /\ call' = [fn |-> "calculateMarketConsensus_v1", props |-> PropsOf(pairs)]
       /\ ret' = calculateMarketConsensus_v1(PropsOf(pairs))

NextConsensus ==
  \/ CallCalculateMarketConsensus_v1
  \/ CallConvertAmericanToProbability
  \/ CallAmericanToImpliedProbability
  \/ CallRemoveVig
  \/ CallEvcRemoveVig
  \/ CallCalculateMarketConsensus
  \/ CallEvcCalculateMarketConsensus

SpecConsensus == Init /\ [][NextConsensus]_vars

\* ------------------------------------------------------------------------
\* Calls of calculateEV
\* ------------------------------------------------------------------------

Stakes == {Num(1), Num(100)}

\* The probabilities calculateEV is called with for odds o: the grid, and
\* the implied probability of o itself.
TrueProbabilities(o) == ProbGrid \cup (IF o = 0 THEN {} ELSE {americanToImpliedProbability(o)})

CallCalculateEV ==
  /\ call = Idle
  /\ \E o \in OddsRange, stake \in Stakes :
       \E p \in TrueProbabilities(o) :
         /\ call' = [fn |-> "calculateEV", trueProbability |-> p,
                     bookOdds |-> o, stake |-> stake]
         /\ ret' = calculateEV(p, o, stake)

CallCalculateEV_v1 ==
  /\ call = Idle
  /\ \E o \in OddsRange, stake \in Stakes :
       \E p \in TrueProbabilities(o) :
         /\ call' = [fn |-> "calculateEV_v1", trueProbability |-> p,
                     bookOdds |-> o, stake |-> stake]
         /\ ret' = calculateEV_v1(p, o, stake)

CallEvcCalculateEV ==
  /\ call = Idle
  /\ \E o \in OddsRange :
       \E p \in TrueProbabilities(o) :
         /\ call' = [fn |-> "evc_calculateEV", trueProbability |-> p, americanOdds |-> o]
         /\ ret' = evc_calculateEV(p, o)

CallCalculateKelly ==
  /\ call = Idle
  /\ \E o \in OddsRange :
       \E p \in TrueProbabilities(o) :
         /\ call' = [fn |-> "calculateKelly", trueProbability |-> p, americanOdds |-> o]
         /\ ret' = calculateKelly(p, o)

CallConvertAmericanToDecimal ==
  /\ call = Idle
  /\ \E o \in OddsRange :
       /\ call' = [fn |-> "convertAmericanToDecimal", odds |-> o]
       /\ ret' = convertAmericanToDecimal(o)

CallAmericanToDecimal ==
  /\ call = Idle
  /\ \E o \in OddsRange :
       /\ call' = [fn |-> "americanToDecimal", odds |-> o]
       /\ ret' = americanToDecimal(o)

NextEV ==
  \/ CallCalculateEV
  \/ CallCalculateEV_v1
  \/ CallEvcCalculateEV
  \/ CallCalculateKelly
  \/ CallConvertAmericanToDecimal
  \/ CallAmericanToDecimal
  \/ CallConvertAmericanToProbability
  \/ CallAmericanToImpliedProbability

SpecEV == Init /\ [][NextEV]_vars

\* ------------------------------------------------------------------------
\* services/evService.ts
\* ------------------------------------------------------------------------

\* An optional string is Undefined or Some(string).
Undefined == [undefined |-> TRUE]
IsUndefined(x) == "undefined" \in DOMAIN x
Some(v) == [value |-> v]

\* A line inside a template literal: the model's lines are whole or half
\* points, which JavaScript prints as "28" and "28.5".
numberText(x) ==
  CASE x.d = 1 -> ToString(x.n)
    [] x.d = 2 /\ x.n > 0 -> ToString(x.n \div 2) \o ".5"

\* `${player_id}-${stat_type}-${line}`
propKey(player_id, stat_type, line) ==
  player_id \o "-" \o stat_type \o "-" \o numberText(line)

\* Array.prototype.sort((a, b) => b.ev_pct - a.ev_pct): a stable sort, so
\* an entry goes after every earlier entry whose ev_pct is not smaller.
RECURSIVE insertByEv(_, _, _)
insertByEv(sorted, e, i) ==
  IF i > Len(sorted) THEN Append(sorted, e)
  ELSE IF Less(sorted[i].ev_pct, e.ev_pct)
       THEN SubSeq(sorted, 1, i - 1) \o <<e>> \o SubSeq(sorted, i, Len(sorted))
       ELSE insertByEv(sorted, e, i + 1)

RECURSIVE sortByEvDesc(_)
sortByEvDesc(evs) ==
  IF Len(evs) = 0 THEN <<>>
  ELSE insertByEv(sortByEvDesc(SubSeq(evs, 1, Len(evs) - 1)), evs[Len(evs)], 1)

\* evEntry with the over price reported whichever side is best.
evEntry_overOddsAlways(player_id, player_name, stat_type, line, book, consensus_over, consensus_under, confidence_score, overEV, underEV, odds) ==
  LET bestSide == IF Greater(overEV.expectedValue, underEV.expectedValue)
                  THEN "Over" ELSE "Under"
      bestEVResult == IF bestSide = "Over" THEN overEV ELSE underEV
  IN  [id |-> propKey(player_id, stat_type, line) \o "-" \o book.sportsbook,
       prop_id |-> player_id \o "-" \o stat_type,
       player_id |-> player_id,
       player_name |-> player_name,
       stat_type |-> stat_type,
       best_sportsbook |-> book.sportsbook,
       best_line |-> line,
       best_odds |-> book.over_odds,
       market_consensus_line |-> line,
       market_consensus_prob |-> IF bestSide = "Over" THEN consensus_over
                                 ELSE consensus_under,
       implied_prob |-> bestEVResult.trueProbability,
       true_prob |-> IF bestSide = "Over" THEN consensus_over ELSE consensus_under,
       edge_pct |-> bestEVResult.edgePercent,
       ev_pct |-> bestEVResult.expectedValue,
       confidence_score |-> confidence_score,
       direction |-> bestSide,
       all_odds |-> odds]

\* The EVCalculation pushed for one book of a group (both methods build
\* the same object from the two EV results).
evEntry(player_id, player_name, stat_type, line, book, consensus_over, consensus_under, confidence_score, overEV, underEV, odds) ==
  LET bestSide == IF Greater(overEV.expectedValue, underEV.expectedValue)
                  THEN "Over" ELSE "Under"
      bestEVResult == IF bestSide = "Over" THEN overEV ELSE underEV
  IN  [id |-> propKey(player_id, stat_type, line) \o "-" \o book.sportsbook,
       prop_id |-> player_id \o "-" \o stat_type,
       player_id |-> player_id,
       player_name |-> player_name,
       stat_type |-> stat_type,
       best_sportsbook |-> book.sportsbook,
       best_line |-> line,
       best_odds |-> IF bestSide = "Over" THEN book.over_odds ELSE book.under_odds,
       market_consensus_line |-> line,
       market_consensus_prob |-> IF bestSide = "Over" THEN consensus_over
                                 ELSE consensus_under,
       implied_prob |-> bestEVResult.trueProbability,
       true_prob |-> IF bestSide = "Over" THEN consensus_over ELSE consensus_under,
       edge_pct |-> bestEVResult.edgePercent,
       ev_pct |-> bestEVResult.expectedValue,
       confidence_score |-> confidence_score,
       direction |-> bestSide,
       all_odds |-> odds]

\* The for loop of calculatePropEV over odds[i..]: the entries pushed, or
\* the error calculateEV throws.
RECURSIVE propEVLoop(_, _, _, _, _, _, _)
propEVLoop(playerId, statType, line, odds, consensus, i, evCalculations) ==
  IF i > Len(odds) THEN Resolved(evCalculations)
  ELSE LET book == odds[i]
           overEV == calculateEV(consensus.over, book.over_odds, Num(100))
       IN  IF IsThrow(overEV) THEN overEV
           ELSE LET underEV == calculateEV(consensus.under, book.under_odds, Num(100))
                IN  IF IsThrow(underEV) THEN underEV
                    ELSE propEVLoop(playerId, statType, line, odds, consensus, i + 1,
                           Append(evCalculations,
                                  evEntry(playerId, "", statType, line, book,
                                          consensus.over, consensus.under,
                                          consensus.confidence, overEV, underEV, odds)))

\* calculatePropEV with the final sort left out.
calculatePropEV_unsorted(playerId, statType, line, odds) ==
  IF Len(odds) = 0 THEN Resolved(<<>>)
  ELSE LET consensus == calculateMarketConsensus(
                          [i \in 1 .. Len(odds) |->
                             [overOdds |-> odds[i].over_odds,
                              underOdds |-> odds[i].under_odds,
                              sportsbook |-> odds[i].sportsbook]])
       IN  IF IsThrow(consensus) THEN consensus
           ELSE propEVLoop(playerId, statType, line, odds, consensus, 1, <<>>)

\* calculatePropEV, given the rows getLatestOdds returned.
calculatePropEV(playerId, statType, line, odds) ==
  IF Len(odds) = 0 THEN Resolved(<<>>)
  ELSE LET consensus == calculateMarketConsensus(
                          [i \in 1 .. Len(odds) |->
                             [overOdds |-> odds[i].over_odds,
                              underOdds |-> odds[i].under_odds,
                              sportsbook |-> odds[i].sportsbook]])
       IN  IF IsThrow(consensus) THEN consensus
           ELSE LET evCalculations ==
                      propEVLoop(playerId, statType, line, odds, consensus, 1, <<>>)
                IN  IF IsThrow(evCalculations) THEN evCalculations
                    ELSE Resolved(sortByEvDesc(evCalculations.value))

\* The market_consensus view read by getMarketConsensus: one row per
\* (player_id, stat_type, line) of the snapshot table, in order of first
\* appearance, with the consensus of all the books' rows of that group.
sameGroup(a, b) ==
  a.player_id = b.player_id /\ a.stat_type = b.stat_type /\ a.line = b.line

market_consensus(snapshots) ==
  LET firsts == SelectSeq([i \in 1 .. Len(snapshots) |-> i],
                          LAMBDA i : \A j \in 1 .. (i - 1) :
                                       ~sameGroup(snapshots[j], snapshots[i]))
  IN  [k \in 1 .. Len(firsts) |->
        LET first == snapshots[firsts[k]]
            rows == SelectSeq(snapshots, LAMBDA r : sameGroup(r, first))
            c == calculateMarketConsensus(
                   [i \in 1 .. Len(rows) |->
                      [overOdds |-> rows[i].over_odds, underOdds |-> rows[i].under_odds,
                       sportsbook |-> rows[i].sportsbook]])
        IN  [player_id |-> first.player_id, player_name |-> first.player_name,
             sport |-> first.sport, stat_type |-> first.stat_type, line |-> first.line,
             consensus_over |-> c.over, consensus_under |-> c.under,
             num_sportsbooks |-> Cardinality({rows[i].sportsbook : i \in 1 .. Len(rows)})]]

\* The inner loop of calculateAllEVs over the books odds[i..] of one
\* consensus row: evCalculations with the entries pushed.
RECURSIVE allEVBooks(_, _, _, _, _)
allEVBooks(prop, odds, minEV, i, evCalculations) ==
  IF i > Len(odds) THEN Resolved(evCalculations)
  ELSE LET book == odds[i]
           overEV == calculateEV(prop.consensus_over, book.over_odds, Num(100))
       IN  IF IsThrow(overEV) THEN overEV
           ELSE LET underEV == calculateEV(prop.consensus_under, book.under_odds, Num(100))
                IN  IF IsThrow(underEV) THEN underEV
                    ELSE LET entry == evEntry(prop.player_id, prop.player_name,
                                              prop.stat_type, prop.line, book,
                                              prop.consensus_over, prop.consensus_under,
                                              Div(Num(prop.num_sportsbooks), Num(10)),
                                              overEV, underEV, odds)
                             skipped == ~IsUndefined(minEV) /\ Less(entry.ev_pct, minEV)
                         IN  allEVBooks(prop, odds, minEV, i + 1,
                                        IF skipped THEN evCalculations
                                        ELSE Append(evCalculations, entry))

\* The outer loop over the consensus rows consensus[j..].
RECURSIVE allEVProps(_, _, _, _, _)
allEVProps(consensus, allOdds, minEV, j, evCalculations) ==
  IF j > Len(consensus) THEN Resolved(evCalculations)
  ELSE LET prop == consensus[j]
           key == propKey(prop.player_id, prop.stat_type, prop.line)
           odds == SelectSeq(allOdds,
                     LAMBDA row : propKey(row.player_id, row.stat_type, row.line) = key)
           pushed == IF Len(odds) = 0 THEN Resolved(evCalculations)
                     ELSE allEVBooks(prop, odds, minEV, 1, evCalculations)
       IN  IF IsThrow(pushed) THEN pushed
           ELSE allEVProps(consensus, allOdds, minEV, j + 1, pushed.value)

\* The keys of playerMap in insertion order.
playerOrder(evCalculations) ==
  LET firsts == SelectSeq([i \in 1 .. Len(evCalculations) |-> i],
                          LAMBDA i : \A j \in 1 .. (i - 1) :
                             evCalculations[j].player_id # evCalculations[i].player_id)
  IN  [k \in 1 .. Len(firsts) |-> evCalculations[firsts[k]].player_id]

\* "Group by player": the best entry of each player, carrying all of the
\* player's entries as all_player_lines.
groupByPlayer(evCalculations) ==
  LET ids == playerOrder(evCalculations)
  IN  [k \in 1 .. Len(ids) |->
        LET sorted == sortByEvDesc(SelectSeq(evCalculations,
                                             LAMBDA ev : ev.player_id = ids[k]))
        IN  [all_player_lines |-> sorted] @@ sorted[1]]

\* The tail of calculateAllEVs: group the entries by player and sort.
allEVResult(evCalculations) ==
  IF IsThrow(evCalculations) THEN evCalculations
  ELSE Resolved(sortByEvDesc(groupByPlayer(evCalculations.value)))

\* calculateAllEVs once the consensus rows are read: the odds rows come
\* from the query on sport and sportsbook.
allEVsOfConsensus(filters, snapshots, queryError, consensus) ==
  IF Len(consensus) = 0 THEN Resolved(<<>>)
  ELSE IF queryError THEN Resolved(<<>>)
  ELSE allEVResult(
         allEVProps(consensus,
                    SelectSeq(snapshots,
                      LAMBDA row : /\ row.sport = (IF IsUndefined(filters.sport) THEN "NBA"
                                                   ELSE filters.sport.value)
                                   /\ row.sportsbook = "PrizePicks"),
                    filters.minEV, 1, <<>>))

\* calculateAllEVs over the snapshot table: the consensus rows come from
\* the view, filtered by sport when the filter is given.
calculateAllEVs(filters, snapshots, queryError) ==
  allEVsOfConsensus(filters, snapshots, queryError,
    SelectSeq(market_consensus(snapshots),
      LAMBDA c : IsUndefined(filters.sport) \/ c.sport = filters.sport.value))

\* ------------------------------------------------------------------------
\* Calls of the EV service and of the mock generator
\* ------------------------------------------------------------------------

\* A snapshot table holds at most MaxRows rows.
MaxRows == 3

\* The sportsbooks and quotes of a prop group.
GroupBooks == {"BetMGM", "Caesars", "DraftKings", "FanDuel"}
GroupQuotes == {<<-115, -105>>, <<100, -120>>, <<-110, -110>>}

\* The rows getLatestOdds returns for one prop: at most MaxBooks rows, one
\* per sportsbook, in any order.
LatestOddsRows(line) ==
  LET pick == UNION { [1 .. k -> GroupBooks \X GroupQuotes] : k \in 0 .. MaxBooks }
  IN  { [i \in 1 .. Len(f) |->
           [sportsbook |-> f[i][1], line |-> line, over_odds |-> f[i][2][1],
            under_odds |-> f[i][2][2], game_date |-> "2026-02-17"]] :
        f \in { g \in pick : \A i, j \in 1 .. Len(g) : i # j => g[i][1] # g[j][1] } }

SnapshotRow(player_id, sport, stat_type, line, sportsbook, over_odds, under_odds) ==
  [player_id |-> player_id, player_name |-> player_id, sport |-> sport,
   stat_type |-> stat_type, line |-> line, sportsbook |-> sportsbook,
   over_odds |-> over_odds, under_odds |-> under_odds, game_date |-> "2026-02-17"]

\* Rows of the odds_snapshots table.
SnapshotRows ==
  { SnapshotRow("p1", "NBA", "Points", Frac(57, 2), "PrizePicks", -110, -110),
    SnapshotRow("p1", "NBA", "Points", Frac(57, 2), "FanDuel", 100, -120),
    SnapshotRow("p1", "NBA", "Assists", Frac(17, 2), "PrizePicks", -115, -105),
    SnapshotRow("p2", "NBA", "Points", Frac(57, 2), "PrizePicks", 100, -120),
    SnapshotRow("p6", "NFL", "Passing Yards", Frac(551, 2), "PrizePicks", -110, -110) }

\* Rows of two props whose player ids and stat types contain the "-" of
\* the key: fetch-odds stores player names with "-" for the blanks and
\* the stat type "3-Pointers".
KeyRows ==
  { SnapshotRow("p1", "NBA", "3-Pointers", Frac(5, 2), "PrizePicks", -110, -110),
    SnapshotRow("p1", "NBA", "3-Pointers", Frac(5, 2), "FanDuel", -115, -105),
    SnapshotRow("p1-3", "NBA", "Pointers", Frac(5, 2), "PrizePicks", 100, -120) }

SnapshotTables ==
  UNION { [1 .. k -> SnapshotRows] \cup [1 .. k -> KeyRows] : k \in 0 .. MaxRows }

Filters == [sport : {Undefined, Some("NBA")}, minEV : {Undefined, Num(0)}]

CallCalculatePropEV ==
  /\ call = Idle
  /\ \E odds \in LatestOddsRows(Frac(57, 2)) :
       /\ call' = [fn |-> "calculatePropEV", playerId |-> "p1", statType |-> "Points",
                   line |-> Frac(57, 2), odds |-> odds]
       /\ ret' = calculatePropEV("p1", "Points", Frac(57, 2), odds)

CallCalculateAllEVs ==
  /\ call = Idle
  /\ \E snapshots \in SnapshotTables, filters \in Filters, queryError \in BOOLEAN :
       /\ call' = [fn |-> "calculateAllEVs", filters |-> filters,
                   snapshots |-> snapshots, queryError |-> queryError]
       /\ ret' = calculateAllEVs(filters, snapshots, queryError)

CallGenerateMockEVCalculations ==
  /\ call = Idle
  /\ \E lines \in LatestOddsRows(Frac(57, 2)) :
       /\ Len(lines) > 0
       /\ call' = [fn |-> "generateMockEVCalculations", playerId |-> "p1",
                   statType |-> "Points", lines |-> lines]
       /\ ret' = mockEVCalculation("p1", "Points", lines)

NextService ==
  \/ CallCalculateMarketConsensus
  \/ CallCalculatePropEV
  \/ CallCalculateAllEVs
  \/ CallGenerateMockEVCalculations

SpecService == Init /\ [][NextService]_vars

\* ------------------------------------------------------------------------
\* lib/oddsNormalizer.ts
\* ------------------------------------------------------------------------

\* Raw payloads are untyped JavaScript values.
JSNull == [t |-> "null"]
JSUndefined == [t |-> "undefined"]
JSNumber(x) == [t |-> "number", num |-> x]
JSString(s) == [t |-> "string", str |-> s]
JSObject(f) == [t |-> "object", f |-> f]
JSArray(a) == [t |-> "array", a |-> a]

IsNullish(v) == v.t \in {"null", "undefined"}

\* ToBoolean(v)
Truthy(v) ==
  CASE v.t \in {"null", "undefined"} -> FALSE
    [] v.t = "number" -> ~IsNaN(v.num) /\ v.num # Num(0)
    [] v.t = "string" -> v.str # ""
    [] OTHER -> TRUE

\* v.name for a v that is neither null nor undefined (an own property of
\* an object; the primitives and arrays of the model have none of the
\* properties read here).
Prop(v, name) ==
  IF v.t = "object" /\ name \in DOMAIN v.f THEN v.f[name] ELSE JSUndefined

\* v?.name
OptProp(v, name) == IF IsNullish(v) THEN JSUndefined ELSE Prop(v, name)

\* a ?? b
Coalesce(a, b) == IF IsNullish(a) THEN b ELSE a

\* String.prototype.toLowerCase on the strings of the model.
LowerCaseOf ==
  ("PrizePicks" :> "prizepicks") @@ ("DraftKings" :> "draftkings")
    @@ ("FanDuel" :> "fanduel") @@ ("PTS" :> "pts") @@ ("Points" :> "points")
    @@ ("Over" :> "over") @@ ("Under" :> "under") @@ ("NBA" :> "nba")
    @@ ("Over 25.5" :> "over 25.5") @@ ("Under 25.5" :> "under 25.5")
    @@ ("Yes" :> "yes") @@ ("Blocks" :> "blocks")

toLowerCase(s) == IF s \in DOMAIN LowerCaseOf THEN LowerCaseOf[s] ELSE s

\* s.includes('over'), s.includes('under') for a lower-case s of the model.
includesOver(s) == s \in {"over", "over 25.5"}
includesUnder(s) == s \in {"under", "under 25.5"}

\* The numeric prefix parseFloat and parseInt read off a string of the
\* model; every other string yields NaN.
ParseFloatOf ==
  ("25.5" :> Frac(51, 2)) @@ ("0" :> Num(0)) @@ ("-110" :> Num(-110))
    @@ ("+150" :> Num(150)) @@ ("-115" :> Num(-115)) @@ ("-105" :> Num(-105))

\* Truncation toward zero.
Trunc(x) ==
  IF ~IsFinite(x) THEN NaN
  ELSE IF x.n >= 0 THEN Num(x.n \div x.d) ELSE Num(-((-x.n) \div x.d))

parseFloat(v) ==
  CASE v.t = "string" -> IF v.str \in DOMAIN ParseFloatOf THEN ParseFloatOf[v.str] ELSE NaN
    [] v.t = "number" -> v.num
    [] OTHER -> NaN

parseInt(v) ==
  CASE v.t = "string" -> IF v.str \in DOMAIN ParseFloatOf THEN Trunc(ParseFloatOf[v.str]) ELSE NaN
    [] v.t = "number" -> Trunc(v.num)
    [] OTHER -> NaN

\* new Date().toISOString()
NowISO == JSString("2026-02-17T00:00:00.000Z")

\* --- PrizePicksNormalizer ---

PrizePicksSportMap ==
  ("NBA" :> "NBA") @@ ("NFL" :> "NFL") @@ ("MLB" :> "MLB") @@ ("NHL" :> "NHL")
    @@ ("WNBA" :> "WNBA") @@ ("soccer" :> "Soccer") @@ ("mls" :> "Soccer")

\* sportMap[league] || league
PrizePicks_normalizeSport(league) ==
  IF league.t = "string" /\ league.str \in DOMAIN PrizePicksSportMap
  THEN JSString(PrizePicksSportMap[league.str])
  ELSE league

PrizePicksStatMap ==
  ("pts" :> "Points") @@ ("points" :> "Points") @@ ("reb" :> "Rebounds")
    @@ ("rebounds" :> "Rebounds") @@ ("ast" :> "Assists") @@ ("assists" :> "Assists")
    @@ ("pts+reb+ast" :> "PRA") @@ ("pra" :> "PRA") @@ ("pass_yds" :> "Passing Yards")
    @@ ("rush_yds" :> "Rushing Yards") @@ ("strikeouts" :> "Strikeouts")

\* statMap[stat.toLowerCase()] || stat; a stat that is no string has no
\* toLowerCase, and the call throws a TypeError.
PrizePicks_normalizeStatType(stat) ==
  IF stat.t # "string" THEN Throw("TypeError: stat.toLowerCase is not a function")
  ELSE IF toLowerCase(stat.str) \in DOMAIN PrizePicksStatMap
       THEN JSString(PrizePicksStatMap[toLowerCase(stat.str)])
       ELSE stat

\* The object PrizePicksNormalizer.normalize returns, given the stat type.
\* PrizePicks_prop with the under price read from the over side.
PrizePicks_prop_underFromOver(raw, statType) ==
  JSObject([playerId |-> Prop(Prop(raw, "player"), "id"),
            playerName |-> Prop(Prop(raw, "player"), "name"),
            sport |-> PrizePicks_normalizeSport(Coalesce(Prop(raw, "league"),
                                                         JSString("unknown"))),
            statType |-> statType,
            line |-> Prop(raw, "line_score"),
            overOdds |-> Coalesce(OptProp(Prop(raw, "odds"), "over"), JSNumber(Num(-110))),
            underOdds |-> Coalesce(OptProp(Prop(raw, "odds"), "over"), JSNumber(Num(-110))),
            sportsbook |-> JSString("PrizePicks"),
            timestamp |-> NowISO])

PrizePicks_prop(raw, statType) ==
  JSObject([playerId |-> Prop(Prop(raw, "player"), "id"),
            playerName |-> Prop(Prop(raw, "player"), "name"),
            sport |-> PrizePicks_normalizeSport(Coalesce(Prop(raw, "league"),
                                                         JSString("unknown"))),
            statType |-> statType,
            line |-> Prop(raw, "line_score"),
            overOdds |-> Coalesce(OptProp(Prop(raw, "odds"), "over"), JSNumber(Num(-110))),
            underOdds |-> Coalesce(OptProp(Prop(raw, "odds"), "under"), JSNumber(Num(-110))),
            sportsbook |-> JSString("PrizePicks"),
            timestamp |-> NowISO])

\* PrizePicksNormalizer.normalize: every error thrown inside its try block
\* (raw itself null or undefined, a stat type that is no string) is caught
\* and answered with null.
PrizePicks_afterStatType(raw, statType) ==
  IF IsThrow(statType) THEN JSNull ELSE PrizePicks_prop(raw, statType)

PrizePicks_normalize(raw) ==
  IF IsNullish(raw) THEN JSNull
  ELSE IF \/ ~Truthy(OptProp(Prop(raw, "player"), "id"))
          \/ ~Truthy(OptProp(Prop(raw, "player"), "name"))
          \/ ~Truthy(Prop(raw, "line_score"))
       THEN JSNull
       ELSE PrizePicks_afterStatType(raw,
              PrizePicks_normalizeStatType(Coalesce(Prop(raw, "stat_type"),
                                                    JSString("unknown"))))

\* --- DraftKingsNormalizer ---

DraftKingsSportMap == ("4" :> "NBA") @@ ("88" :> "NFL") @@ ("3" :> "MLB") @@ ("6" :> "NHL")

\* The property key a value is converted to.
PropertyKey(v) ==
  CASE v.t = "string" -> v.str
    [] v.t = "number" /\ v.num.d = 1 -> ToString(v.num.n)
    [] OTHER -> "[object]"

\* sportMap[subcategoryId] || 'Unknown'
extractSport(subcategoryId) ==
  IF PropertyKey(subcategoryId) \in DOMAIN DraftKingsSportMap
  THEN JSString(DraftKingsSportMap[PropertyKey(subcategoryId)])
  ELSE JSString("Unknown")

\* v.length >= 2 for a truthy v (the strings of the model shorter than two
\* characters are listed).
lengthAtLeastTwo(v) ==
  CASE v.t = "array" -> Len(v.a) >= 2
    [] v.t = "string" -> v.str \notin {"", "0", "3", "4", "6", "x"}
    [] v.t = "object" -> /\ Prop(v, "length").t = "number"
                         /\ Geq(Prop(v, "length").num, Num(2))
    [] OTHER -> FALSE

\* raw.offers.find(offer => offer.outcomes && offer.outcomes.length >= 2)
\* from offers[i] on: the offer, undefined, or the TypeError of reading a
\* property of a null or undefined offer.
RECURSIVE findPropOffer(_, _)
findPropOffer(offers, i) ==
  IF i > Len(offers) THEN JSUndefined
  ELSE IF IsNullish(offers[i])
       THEN Throw("TypeError: Cannot read properties of null (reading 'outcomes')")
  ELSE IF Truthy(Prop(offers[i], "outcomes")) /\ lengthAtLeastTwo(Prop(offers[i], "outcomes"))
       THEN offers[i]
  ELSE findPropOffer(offers, i + 1)

\* outcomes.find(o => o.label?.toLowerCase().includes(side)) from
\* outcomes[i] on.
RECURSIVE findOutcome(_, _, _)
findOutcome(outcomes, side, i) ==
  IF i > Len(outcomes) THEN JSUndefined
  ELSE IF IsNullish(outcomes[i])
       THEN Throw("TypeError: Cannot read properties of null (reading 'label')")
  ELSE IF IsNullish(Prop(outcomes[i], "label")) THEN findOutcome(outcomes, side, i + 1)
  ELSE IF Prop(outcomes[i], "label").t # "string"
       THEN Throw("TypeError: o.label?.toLowerCase is not a function")
  ELSE IF \/ side = "over" /\ includesOver(toLowerCase(Prop(outcomes[i], "label").str))
          \/ side = "under" /\ includesUnder(toLowerCase(Prop(outcomes[i], "label").str))
       THEN outcomes[i]
  ELSE findOutcome(outcomes, side, i + 1)

\* propOffer.outcomes?.find(...): outcomes is truthy here; only an array
\* has a find method.
findOutcomeOf(propOffer, side) ==
  IF Prop(propOffer, "outcomes").t # "array"
  THEN Throw("TypeError: propOffer.outcomes.find is not a function")
  ELSE findOutcome(Prop(propOffer, "outcomes").a, side, 1)

\* The object DraftKingsNormalizer.normalize returns.
DraftKings_prop(raw, propOffer, overOutcome, underOutcome) ==
  JSObject([playerId |-> Prop(Prop(raw, "participant"), "participantId"),
            playerName |-> Prop(Prop(raw, "participant"), "name"),
            sport |-> extractSport(Coalesce(Prop(raw, "subcategoryId"), JSString(""))),
            statType |-> Coalesce(Prop(propOffer, "label"), JSString("Unknown")),
            line |-> JSNumber(parseFloat(Coalesce(Prop(overOutcome, "line"),
                                                  JSString("0")))),
            overOdds |-> JSNumber(parseInt(Coalesce(Prop(overOutcome, "oddsAmerican"),
                                                    JSString("-110")))),
            underOdds |-> JSNumber(parseInt(Coalesce(Prop(underOutcome, "oddsAmerican"),
                                                     JSString("-110")))),
            sportsbook |-> JSString("DraftKings"),
            timestamp |-> NowISO])

DraftKings_afterOutcomes(raw, propOffer, overOutcome, underOutcome) ==
  IF IsThrow(overOutcome) \/ IsThrow(underOutcome) THEN JSNull
  ELSE IF ~Truthy(overOutcome) \/ ~Truthy(underOutcome) THEN JSNull
  ELSE DraftKings_prop(raw, propOffer, overOutcome, underOutcome)

DraftKings_afterOffer(raw, propOffer) ==
  IF IsThrow(propOffer) THEN JSNull
  ELSE IF ~Truthy(propOffer) THEN JSNull
  ELSE DraftKings_afterOutcomes(raw, propOffer, findOutcomeOf(propOffer, "over"),
                                findOutcomeOf(propOffer, "under"))

\* DraftKingsNormalizer.normalize: every error thrown inside its try block
\* is caught and answered with null.
DraftKings_normalize(raw) ==
  IF IsNullish(raw) THEN JSNull
  ELSE IF \/ ~Truthy(OptProp(Prop(raw, "participant"), "participantId"))
          \/ ~Truthy(OptProp(Prop(raw, "participant"), "name"))
       THEN JSNull
  ELSE IF IsNullish(Prop(raw, "offers")) THEN JSNull
  ELSE IF Prop(raw, "offers").t # "array" THEN JSNull
  ELSE DraftKings_afterOffer(raw, findPropOffer(Prop(raw, "offers").a, 1))

\* --- TheOddsApiNormalizer ---

TheOddsApiSportMap ==
  ("basketball_nba" :> "NBA") @@ ("americanfootball_nfl" :> "NFL")
    @@ ("baseball_mlb" :> "MLB") @@ ("icehockey_nhl" :> "NHL")
    @@ ("basketball_wnba" :> "WNBA") @@ ("soccer_epl" :> "Soccer")

\* sportMap[sportKey] || sportKey
TheOddsApi_normalizeSport(sportKey) ==
  IF PropertyKey(sportKey) \in DOMAIN TheOddsApiSportMap
  THEN JSString(TheOddsApiSportMap[PropertyKey(sportKey)])
  ELSE sportKey

TheOddsApiStatMap ==
  ("player_points" :> "Points") @@ ("player_rebounds" :> "Rebounds")
    @@ ("player_assists" :> "Assists")
    @@ ("player_points_rebounds_assists" :> "PRA")
    @@ ("player_pass_yds" :> "Passing Yards") @@ ("player_rush_yds" :> "Rushing Yards")

\* statMap[marketKey] || marketKey
TheOddsApi_normalizeStatType(marketKey) ==
  IF PropertyKey(marketKey) \in DOMAIN TheOddsApiStatMap
  THEN JSString(TheOddsApiStatMap[PropertyKey(marketKey)])
  ELSE marketKey

\* for (const x of v): arrays and strings are iterable, anything else
\* throws a TypeError.  The characters of a string have none of the
\* properties read in the loops, so a string iterates like an empty list.
IsIterable(v) == v.t \in {"array", "string"}
ElementsOf(v) == IF v.t = "array" THEN v.a ELSE <<>>

\* market.outcomes.find(o => o.name?.toLowerCase().includes(side)) from
\* outcomes[i] on.
RECURSIVE findNamedOutcome(_, _, _)
findNamedOutcome(outcomes, side, i) ==
  IF i > Len(outcomes) THEN JSUndefined
  ELSE IF IsNullish(outcomes[i])
       THEN Throw("TypeError: Cannot read properties of null (reading 'name')")
  ELSE IF IsNullish(Prop(outcomes[i], "name")) THEN findNamedOutcome(outcomes, side, i + 1)
  ELSE IF Prop(outcomes[i], "name").t # "string"
       THEN Throw("TypeError: o.name?.toLowerCase is not a function")
  ELSE IF \/ side = "over" /\ includesOver(toLowerCase(Prop(outcomes[i], "name").str))
          \/ side = "under" /\ includesUnder(toLowerCase(Prop(outcomes[i], "name").str))
       THEN outcomes[i]
  ELSE findNamedOutcome(outcomes, side, i + 1)

findNamedOutcomeOf(market, side) ==
  IF Prop(market, "outcomes").t # "array"
  THEN Throw("TypeError: market.outcomes.find is not a function")
  ELSE findNamedOutcome(Prop(market, "outcomes").a, side, 1)

\* The object pushed for one market.
TheOddsApi_prop(raw, playerId, playerName, bookmaker, market, overOutcome, underOutcome) ==
  JSObject([playerId |-> playerId,
            playerName |-> playerName,
            sport |-> TheOddsApi_normalizeSport(Prop(raw, "sport_key")),
            statType |-> TheOddsApi_normalizeStatType(Coalesce(Prop(market, "key"),
                                                               JSString(""))),
            line |-> Prop(overOutcome, "point"),
            overOdds |-> Coalesce(Prop(overOutcome, "price"), JSNumber(Num(-110))),
            underOdds |-> Coalesce(Prop(underOutcome, "price"), JSNumber(Num(-110))),
            sportsbook |-> Prop(bookmaker, "title"),
            timestamp |-> IF Truthy(Prop(raw, "commence_time"))
                          THEN Prop(raw, "commence_time") ELSE NowISO])

\* A loop of TheOddsApiNormalizer.normalize yields the list built so far
\* and whether an error ended it (the catch block keeps the list).
LoopResult(list, threw) == [list |-> list, threw |-> threw]

\* One market, once both outcomes are searched.
TheOddsApi_market(raw, playerId, playerName, bookmaker, market, overOutcome, underOutcome, normalized) ==
  IF IsThrow(overOutcome) \/ IsThrow(underOutcome) THEN LoopResult(normalized, TRUE)
  ELSE IF /\ Truthy(overOutcome) /\ Truthy(underOutcome)
          /\ Prop(overOutcome, "point") # JSUndefined
       THEN LoopResult(Append(normalized,
                              TheOddsApi_prop(raw, playerId, playerName, bookmaker, market,
                                              overOutcome, underOutcome)), FALSE)
  ELSE LoopResult(normalized, FALSE)

\* The inner loop over markets[j..] of one bookmaker.
RECURSIVE TheOddsApi_markets(_, _, _, _, _, _, _)
TheOddsApi_marketsStep(raw, playerId, playerName, bookmaker, markets, j, step) ==
  IF step.threw THEN step
  ELSE TheOddsApi_markets(raw, playerId, playerName, bookmaker, markets, j + 1, step.list)

TheOddsApi_markets(raw, playerId, playerName, bookmaker, markets, j, normalized) ==
  IF j > Len(markets) THEN LoopResult(normalized, FALSE)
  ELSE IF IsNullish(markets[j]) THEN LoopResult(normalized, TRUE)
  ELSE IF ~Truthy(Prop(markets[j], "outcomes"))
       THEN TheOddsApi_markets(raw, playerId, playerName, bookmaker, markets, j + 1,
                               normalized)
  ELSE TheOddsApi_marketsStep(raw, playerId, playerName, bookmaker, markets, j,
         TheOddsApi_market(raw, playerId, playerName, bookmaker, markets[j],
                           findNamedOutcomeOf(markets[j], "over"),
                           findNamedOutcomeOf(markets[j], "under"), normalized))

\* The outer loop over bookmakers[i..].
RECURSIVE TheOddsApi_bookmakers(_, _, _, _, _, _)
TheOddsApi_bookmakersStep(raw, playerId, playerName, bookmakers, i, step) ==
  IF step.threw THEN step
  ELSE TheOddsApi_bookmakers(raw, playerId, playerName, bookmakers, i + 1, step.list)

TheOddsApi_bookmakers(raw, playerId, playerName, bookmakers, i, normalized) ==
  IF i > Len(bookmakers) THEN LoopResult(normalized, FALSE)
  ELSE IF IsNullish(bookmakers[i]) THEN LoopResult(normalized, TRUE)
  ELSE IF \/ ~Truthy(Prop(bookmakers[i], "markets"))
          \/ ~Truthy(Prop(bookmakers[i], "title"))
       THEN TheOddsApi_bookmakers(raw, playerId, playerName, bookmakers, i + 1, normalized)
  ELSE IF ~IsIterable(Prop(bookmakers[i], "markets")) THEN LoopResult(normalized, TRUE)
  ELSE TheOddsApi_bookmakersStep(raw, playerId, playerName, bookmakers, i,
         TheOddsApi_markets(raw, playerId, playerName, bookmakers[i],
                            ElementsOf(Prop(bookmakers[i], "markets")), 1, normalized))

\* TheOddsApiNormalizer.normalize: it returns the list, whether or not an
\* error ended the loops.
TheOddsApi_normalize(raw, playerId, playerName) ==
  IF IsNullish(raw) THEN <<>>
  ELSE IF ~Truthy(Prop(raw, "bookmakers")) \/ ~Truthy(Prop(raw, "sport_key")) THEN <<>>
  ELSE IF ~IsIterable(Prop(raw, "bookmakers")) THEN <<>>
  ELSE TheOddsApi_bookmakers(raw, playerId, playerName,
                             ElementsOf(Prop(raw, "bookmakers")), 1, <<>>).list

\* --- OddsNormalizer ---

normalizePrizePicks(raw) == PrizePicks_normalize(raw)
normalizeDraftKings(raw) == DraftKings_normalize(raw)
normalizeTheOddsApi(raw, playerId, playerName) ==
  TheOddsApi_normalize(raw, playerId, playerName)

\* The auto-detection of normalizeAny; it reads raw.player outside any try
\* block.
autoDetect(raw) ==
  IF IsNullish(raw)
  THEN Throw("TypeError: Cannot read properties of " \o raw.t \o " (reading 'player')")
  ELSE IF Truthy(Prop(raw, "player")) /\ Prop(raw, "line_score") # JSUndefined
       THEN normalizePrizePicks(raw)
  ELSE IF Truthy(Prop(raw, "bookmakers")) /\ Prop(raw, "bookmakers").t = "array"
       THEN JSNull
  ELSE IF Truthy(Prop(raw, "participant")) /\ Truthy(Prop(raw, "offers"))
       THEN normalizeDraftKings(raw)
  ELSE JSNull

\* normalizeAny(raw, sportsbook): the hint is a string or undefined.
normalizeAny(raw, sportsbook) ==
  IF Truthy(sportsbook) /\ toLowerCase(sportsbook.str) = "prizepicks"
  THEN normalizePrizePicks(raw)
  ELSE IF Truthy(sportsbook) /\ toLowerCase(sportsbook.str) = "draftkings"
       THEN normalizeDraftKings(raw)
  ELSE autoDetect(raw)

\* The for loop of normalizeBatch over rawProps[i..]: Resolved(normalized),
\* or the error normalizeAny threw.
RECURSIVE batchLoop(_, _, _, _)
batchStep(rawProps, sportsbook, i, normalized, result) ==
  IF IsThrow(result) THEN result
  ELSE batchLoop(rawProps, sportsbook, i + 1,
                 IF Truthy(result) THEN Append(normalized, result) ELSE normalized)

batchLoop(rawProps, sportsbook, i, normalized) ==
  IF i > Len(rawProps) THEN Resolved(normalized)
  ELSE batchStep(rawProps, sportsbook, i, normalized, normalizeAny(rawProps[i], sportsbook))

normalizeBatch(rawProps, sportsbook) == batchLoop(rawProps, sportsbook, 1, <<>>)

\* String.prototype.trim on the strings of the model.
TrimOf == ("  " :> "") @@ (" p1 " :> "p1")
trim(s) == IF s \in DOMAIN TrimOf THEN TrimOf[s] ELSE s

\* Date.parse on the strings of the model, in seconds since the epoch; every
\* other string is not a date.
DateParseOf ==
  ("2026-02-17T19:00:00Z" :> Num(1771354800)) @@ ("2026-02-17T00:00:00.000Z" :> Num(1771286400))
DateParse(v) ==
  IF v.t = "string" /\ v.str \in DOMAIN DateParseOf THEN DateParseOf[v.str] ELSE NaN

\* field && field.trim().length > 0 is true; a field that is truthy and not
\* a string has no trim.
trimCheck(field) == Truthy(field) /\ Len(trim(field.str)) > 0
trimThrows(field) == Truthy(field) /\ field.t # "string"

\* typeof field === 'number' && !isNaN(field)
numberCheck(field) == field.t = "number" /\ ~IsNaN(field.num)

\* prop.timestamp && !isNaN(Date.parse(prop.timestamp))
timestampCheck(field) == Truthy(field) /\ ~IsNaN(DateParse(field))

\* The first field, in the order of the checks, whose trim call fails.
RECURSIVE firstTrimThrow(_, _, _)
firstTrimThrow(prop, fields, i) ==
  IF i > Len(fields) THEN ""
  ELSE IF trimThrows(Prop(prop, fields[i])) THEN fields[i]
  ELSE firstTrimThrow(prop, fields, i + 1)

validateChecks(prop) ==
  /\ trimCheck(Prop(prop, "playerId"))
  /\ trimCheck(Prop(prop, "playerName"))
  /\ trimCheck(Prop(prop, "sport"))
  /\ trimCheck(Prop(prop, "statType"))
  /\ numberCheck(Prop(prop, "line"))
  /\ numberCheck(Prop(prop, "overOdds"))
  /\ numberCheck(Prop(prop, "underOdds"))
  /\ trimCheck(Prop(prop, "sportsbook"))
  /\ timestampCheck(Prop(prop, "timestamp"))

\* validate(prop): Resolved(checks.every(check => check === true)), or the
\* TypeError of a trim call.
validateAfterTrim(prop, thrower) ==
  IF thrower # "" THEN Throw("TypeError: prop." \o thrower \o ".trim is not a function")
  ELSE Resolved(validateChecks(prop))

validate(prop) ==
  IF IsNullish(prop)
  THEN Throw("TypeError: Cannot read properties of " \o prop.t \o " (reading 'playerId')")
  ELSE validateAfterTrim(prop,
         firstTrimThrow(prop, <<"playerId", "playerName", "sport", "statType", "sportsbook">>, 1))

\* ------------------------------------------------------------------------
\* Calls of the normalizer
\* ------------------------------------------------------------------------

\* A batch holds at most MaxBatch records.
MaxBatch == 2

\* A field left out of an object literal.
Absent == [t |-> "absent"]
NoFields == [x \in {} |-> x]
Field(name, v) == IF v = Absent THEN NoFields ELSE name :> v

PrizePicksPlayers ==
  { Absent,
    JSObject([name |-> JSString("LeBron James")]),
    JSObject([id |-> JSString("pp-1"), name |-> JSString("LeBron James")]) }

PrizePicksOdds == JSObject([over |-> JSNumber(Num(-115)), under |-> JSNumber(Num(-105))])

\* Payloads of the PrizePicks shape, complete or with fields missing.
PrizePicksRaws ==
  { JSObject(("league" :> JSString(g)) @@ Field("player", p) @@ Field("stat_type", s)
               @@ Field("line_score", l) @@ Field("odds", o)) :
      g \in {"NBA", "KBO"},
      p \in PrizePicksPlayers,
      s \in {Absent, JSString("PTS"), JSString("Blocks"), JSNumber(Num(7))},
      l \in {Absent, JSNumber(Num(0)), JSNumber(Frac(51, 2))},
      o \in {Absent, PrizePicksOdds, JSObject([over |-> JSNumber(Num(-115))])} }

DraftKingsOutcome(label, odds) ==
  JSObject([label |-> label, oddsAmerican |-> JSString(odds), line |-> JSString("25.5")])

DraftKingsOffer(outcomes) ==
  JSObject([label |-> JSString("Points"), outcomes |-> JSArray(outcomes)])

OverUnderOffer ==
  DraftKingsOffer(<<DraftKingsOutcome(JSString("Over"), "-110"),
                    DraftKingsOutcome(JSString("Under"), "+150")>>)

DraftKingsOffers ==
  { Absent,
    JSString("x"),
    JSArray(<<>>),
    JSArray(<<JSNull>>),
    JSArray(<<OverUnderOffer>>),
    JSArray(<<DraftKingsOffer(<<DraftKingsOutcome(JSString("Over"), "-110")>>),
              OverUnderOffer>>),
    JSArray(<<DraftKingsOffer(<<DraftKingsOutcome(JSString("Over"), "-110"),
                                DraftKingsOutcome(JSString("Yes"), "-110")>>)>>),
    JSArray(<<DraftKingsOffer(<<DraftKingsOutcome(JSNumber(Num(1)), "-110"),
                                DraftKingsOutcome(JSString("Under"), "-110")>>)>>),
    JSArray(<<DraftKingsOffer(<<DraftKingsOutcome(JSString("Over"), "EVEN"),
                                DraftKingsOutcome(JSString("Under"), "-110")>>)>>),
    JSArray(<<DraftKingsOffer(<<JSObject([label |-> JSString("Over")]),
                                DraftKingsOutcome(JSString("Under"), "+150")>>)>>) }

DraftKingsParticipants ==
  { Absent,
    JSObject([name |-> JSString("Stephen Curry")]),
    JSObject([participantId |-> JSString("dk-30"), name |-> JSString("Stephen Curry")]) }

\* Payloads of the DraftKings shape, complete or with fields missing.
DraftKingsRaws ==
  { JSObject(("eventId" :> JSString("e1")) @@ Field("participant", p)
               @@ Field("subcategoryId", c) @@ Field("offers", o)) :
      p \in DraftKingsParticipants, c \in {Absent, JSString("4"), JSString("999")},
      o \in DraftKingsOffers }

\* A payload of the aggregator shape.
TheOddsApiRaw ==
  JSObject([sport_key |-> JSString("basketball_nba"), bookmakers |-> JSArray(<<>>)])

TheOddsApiOutcome(name, price, point) ==
  JSObject(("name" :> JSString(name)) @@ Field("price", price) @@ Field("point", point))

TheOddsApiMarket(key, outcomes) ==
  JSObject(Field("key", key) @@ ("outcomes" :> JSArray(outcomes)))

\* Markets of the aggregator shape: with both sides, with a side, a price,
\* the point or the key missing, with a price of 0.
TheOddsApiMarkets ==
  { TheOddsApiMarket(key, <<TheOddsApiOutcome("Over", overPrice, point),
                            TheOddsApiOutcome("Under", JSNumber(Num(-105)), point)>>) :
      key \in {Absent, JSString("player_points"), JSString("player_threes")},
      overPrice \in {Absent, JSNumber(Num(-115)), JSNumber(Num(0))},
      point \in {Absent, JSNumber(Frac(51, 2))} }
    \cup { TheOddsApiMarket(JSString("player_points"),
                            <<TheOddsApiOutcome("Over", JSNumber(Num(-115)),
                                                JSNumber(Frac(51, 2)))>>),
           TheOddsApiMarket(JSString("player_points"), <<JSNull>>) }

TheOddsApiBookmaker(title, markets) ==
  JSObject(Field("title", title) @@ ("markets" :> JSArray(markets)))

OverUnderMarket ==
  TheOddsApiMarket(JSString("player_points"),
                   <<TheOddsApiOutcome("Over", JSNumber(Num(-115)), JSNumber(Frac(51, 2))),
                     TheOddsApiOutcome("Under", JSNumber(Num(-105)), JSNumber(Frac(51, 2)))>>)

FanDuelBookmaker == TheOddsApiBookmaker(JSString("FanDuel"), <<OverUnderMarket>>)

TheOddsApiBookmakerLists ==
  { <<TheOddsApiBookmaker(title, <<market>>)>> :
      title \in {Absent, JSString("DraftKings")}, market \in TheOddsApiMarkets }
    \cup { <<>>, <<FanDuelBookmaker, JSNull>>, <<JSNull, FanDuelBookmaker>>,
           <<FanDuelBookmaker, TheOddsApiBookmaker(JSString("DraftKings"),
                                                   <<OverUnderMarket>>)>> }

\* Payloads of the aggregator shape, complete or with fields missing.
TheOddsApiRaws ==
  { JSObject(("id" :> JSString("g1")) @@ Field("sport_key", sportKey)
               @@ Field("commence_time", commenceTime)
               @@ ("bookmakers" :> JSArray(bookmakers))) :
      sportKey \in {Absent, JSString("basketball_nba"), JSString("cricket_ipl")},
      commenceTime \in {Absent, JSString("2026-02-17T19:00:00Z")},
      bookmakers \in TheOddsApiBookmakerLists }

ValidTheOddsApiRaw ==
  JSObject([id |-> JSString("g1"), sport_key |-> JSString("basketball_nba"),
            commence_time |-> JSString("2026-02-17T19:00:00Z"),
            bookmakers |-> JSArray(<<FanDuelBookmaker>>)])

NoShapeRaw == JSObject([foo |-> JSString("bar")])

OtherRaws ==
  { JSNull, JSUndefined, JSNumber(Num(5)), JSString("junk"), NoShapeRaw, TheOddsApiRaw,
    ValidTheOddsApiRaw }

RawValues == PrizePicksRaws \cup DraftKingsRaws \cup OtherRaws

Hints ==
  { JSUndefined, JSString(""), JSString("prizepicks"), JSString("PrizePicks"),
    JSString("DraftKings"), JSString("FanDuel") }

ValidPrizePicksRaw ==
  JSObject([league |-> JSString("NBA"),
            player |-> JSObject([id |-> JSString("pp-1"), name |-> JSString("LeBron James")]),
            stat_type |-> JSString("PTS"), line_score |-> JSNumber(Frac(51, 2)),
            odds |-> PrizePicksOdds])

MissingPlayerIdRaw ==
  JSObject([league |-> JSString("NBA"),
            player |-> JSObject([name |-> JSString("LeBron James")]),
            stat_type |-> JSString("PTS"), line_score |-> JSNumber(Frac(51, 2)),
            odds |-> PrizePicksOdds])

ValidDraftKingsRaw ==
  JSObject([eventId |-> JSString("e1"),
            participant |-> JSObject([participantId |-> JSString("dk-30"),
                                      name |-> JSString("Stephen Curry")]),
            subcategoryId |-> JSString("4"), offers |-> JSArray(<<OverUnderOffer>>)])

\* The records a batch is made of.
BatchRaws ==
  { JSNull, JSUndefined, ValidPrizePicksRaw, MissingPlayerIdRaw, ValidDraftKingsRaw,
    TheOddsApiRaw, ValidTheOddsApiRaw, NoShapeRaw }

BatchHints == { JSUndefined, JSString("PrizePicks"), JSString("DraftKings") }

Batches == UNION { [1 .. k -> BatchRaws] : k \in 0 .. MaxBatch }

CallNormalizeAny ==
  /\ call = Idle
  /\ \E raw \in RawValues, sportsbook \in Hints :
       /\ call' = [fn |-> "normalizeAny", raw |-> raw, sportsbook |-> sportsbook]
       /\ ret' = normalizeAny(raw, sportsbook)

CallNormalizeBatch ==
  /\ call = Idle
  /\ \E rawProps \in Batches, sportsbook \in BatchHints :
       /\ call' = [fn |-> "normalizeBatch", rawProps |-> rawProps,
                   sportsbook |-> sportsbook]
       /\ ret' = normalizeBatch(rawProps, sportsbook)

\* The caller names the player; an id may be the empty string.
CallNormalizeTheOddsApi ==
  /\ call = Idle
  /\ \E raw \in TheOddsApiRaws \cup {JSNull, ValidTheOddsApiRaw, NoShapeRaw},
        playerId \in {JSString("p1")} :
       /\ call' = [fn |-> "normalizeTheOddsApi", raw |-> raw, playerId |-> playerId,
                   playerName |-> JSString("LeBron James")]
       /\ ret' = Resolved(normalizeTheOddsApi(raw, playerId, JSString("LeBron James")))

\* Records handed to validate: NormalizedProps, and records that break one
\* or more of the fields.
ValidateProps ==
  { JSObject(Field("playerId", playerId) @@ ("playerName" :> JSString("LeBron James"))
               @@ ("sport" :> JSString("NBA")) @@ Field("statType", statType)
               @@ Field("line", line) @@ ("overOdds" :> JSNumber(overOdds))
               @@ ("underOdds" :> JSNumber(underOdds))
               @@ ("sportsbook" :> JSString("FanDuel")) @@ Field("timestamp", timestamp)) :
      playerId \in {Absent, JSString(""), JSString("  "), JSString("p1")},
      statType \in {JSString("Points"), JSNumber(Num(7))},
      line \in {Absent, JSString("25.5"), JSNumber(NaN), JSNumber(Infinity),
                JSNumber(Frac(51, 2))},
      overOdds \in {Num(-110), Num(0), NaN, Infinity, Frac(5, 2)},
      underOdds \in {Num(-110), Num(0)},
      timestamp \in {Absent, JSString("not a date"), JSString("2026-02-17T19:00:00Z")} }

CallValidate ==
  /\ call = Idle
  /\ \E prop \in ValidateProps :
       /\ call' = [fn |-> "validate", prop |-> prop]
       /\ ret' = validate(prop)

NextNormalizer ==
  \/ CallNormalizeAny
  \/ CallNormalizeBatch
  \/ CallNormalizeTheOddsApi
  \/ CallValidate

SpecNormalizer == Init /\ [][NextNormalizer]_vars

\* ------------------------------------------------------------------------
\* Parlay probability calculator (part_004, from line 508)
\* ------------------------------------------------------------------------

\* A ParlayLeg.  gameId and team are optional: the empty string stands for
\* a field left out (both are dropped by filter(Boolean)).
ParlayLeg(playerId, statType, probability, gameId, team) ==
  [playerId |-> playerId, statType |-> statType, probability |-> probability,
   gameId |-> gameId, team |-> team]

CorrelationRisk(level, description, affectedLegs) ==
  [level |-> level, description |-> description, affectedLegs |-> affectedLegs]

hasStat(legs, statType) == \E i \in 1 .. Len(legs) : legs[i].statType = statType

detectCorrelatedStats(legs) ==
  (IF hasStat(legs, "PRA")
      /\ (hasStat(legs, "Points") \/ hasStat(legs, "Assists") \/ hasStat(legs, "Rebounds"))
   THEN <<"PRA overlaps with Points/Rebounds/Assists">> ELSE <<>>)
  \o (IF hasStat(legs, "Passing Yards") /\ hasStat(legs, "Touchdowns")
      THEN <<"Passing Yards and Touchdowns are correlated">> ELSE <<>>)

\* legs.map(leg => leg[field]).filter(Boolean)
truthyFields(legs, field) == SelectSeq([i \in 1 .. Len(legs) |-> legs[i][field]], LAMBDA v : v # "")

\* Math.max(...Object.values(teamCounts), 0)
maxSameTeam(teams) ==
  LET countOf(t) == Cardinality({i \in 1 .. Len(teams) : teams[i] = t})
  IN  IF Len(teams) = 0 THEN 0
      ELSE CHOOSE m \in 1 .. Len(teams) :
             /\ \E i \in 1 .. Len(teams) : countOf(teams[i]) = m
             /\ \A i \in 1 .. Len(teams) : countOf(teams[i]) <= m

\* array.join(', ')
RECURSIVE joinComma(_, _)
joinComma(strings, i) ==
  IF i > Len(strings) THEN ""
  ELSE IF i = Len(strings) THEN strings[i]
  ELSE strings[i] \o ", " \o joinComma(strings, i + 1)

\* detectCorrelationRisk with the same-player test asking for a second repeat.
detectCorrelationRisk_threeOfAPlayer(legs) ==
  IF Len(legs) <= 1 THEN CorrelationRisk("None", "Single leg parlay has no correlation risk", 0)
  ELSE IF Len(legs) - Cardinality({legs[i].playerId : i \in 1 .. Len(legs)}) > 1
       THEN CorrelationRisk("Severe", "same player", 0)
  ELSE CorrelationRisk("None", "Legs appear to be independent", 0)

\* The checks of detectCorrelationRisk, given the counts.
correlationOfCounts(legs, samePlayerLegs, sameGameLegs, sameTeam, correlatedStats) ==
  IF samePlayerLegs > 0
  THEN CorrelationRisk("Severe",
         ToString(samePlayerLegs + 1) \o " legs involve the same player. These stats are highly correlated (e.g., if player scores points, they likely also get rebounds/assists). True probability is lower than calculated.",
         samePlayerLegs + 1)
  ELSE IF sameGameLegs >= 2
  THEN CorrelationRisk("High",
         ToString(sameGameLegs + 1) \o " legs are from the same game. Game flow affects all props (blowout, overtime, pace). True probability is lower than calculated.",
         sameGameLegs + 1)
  ELSE IF sameTeam >= 2
  THEN CorrelationRisk("Medium",
         ToString(sameTeam) \o " legs involve players from the same team. Team performance affects all props.",
         sameTeam)
  ELSE IF Len(correlatedStats) > 0
  THEN CorrelationRisk("Low",
         "Some stat types may be correlated: " \o joinComma(correlatedStats, 1),
         Len(correlatedStats))
  ELSE CorrelationRisk("None", "Legs appear to be independent", 0)

sameGameLegsOf(gameIds) ==
  IF Len(gameIds) > 0
  THEN Len(gameIds) - Cardinality({gameIds[i] : i \in 1 .. Len(gameIds)})
  ELSE 0

detectCorrelationRisk(legs) ==
  IF Len(legs) <= 1 THEN CorrelationRisk("None", "Single leg parlay has no correlation risk", 0)
  ELSE correlationOfCounts(legs,
         Len(legs) - Cardinality({legs[i].playerId : i \in 1 .. Len(legs)}),
         sameGameLegsOf(truthyFields(legs, "gameId")),
         maxSameTeam(truthyFields(legs, "team")),
         detectCorrelatedStats(legs))

\* ------------------------------------------------------------------------
\* Calls of detectCorrelationRisk
\* ------------------------------------------------------------------------

\* A leg list holds at most MaxLegs legs.
MaxLegs == 3

LegPlayers == <<"p1", "p2", "p3", "p4", "p5", "p6", "p7">>

\* The legs a list may hold at position i: the player of leg 1 again or a
\* player of its own, in game g1 or in none, of team LAL or of none.
LegsAt(i) ==
  { ParlayLeg(playerId, statType, Frac(1, 2), gameId, team) :
      playerId \in {"p1", LegPlayers[i]},
      statType \in {"Points", "PRA", "Passing Yards", "Touchdowns"},
      gameId \in {"", "g1"},
      team \in {"", "LAL"} }

\* The leg lists of length k.
RECURSIVE LegLists(_)
LegLists(k) ==
  IF k = 0 THEN {<<>>}
  ELSE { Append(legs, leg) : legs \in LegLists(k - 1), leg \in LegsAt(k) }

CallDetectCorrelationRisk ==
  /\ call = Idle
  /\ \E k \in 0 .. MaxLegs :
       \E legs \in LegLists(k) :
         /\ call' = [fn |-> "detectCorrelationRisk", legs |-> legs]
         /\ ret' = detectCorrelationRisk(legs)

NextCorrelation ==
  \/ CallDetectCorrelationRisk

SpecCorrelation == Init /\ [][NextCorrelation]_vars

\* ------------------------------------------------------------------------
\* Parlay calculation (part_004 554-748)
\* ------------------------------------------------------------------------

\* The first probability, from probabilities[i] on, outside [0, 1]; 0 if none.
RECURSIVE firstInvalidProbability(_, _)
firstInvalidProbability(probabilities, i) ==
  IF i > Len(probabilities) THEN 0
  ELSE IF Less(probabilities[i], Num(0)) \/ Greater(probabilities[i], Num(1)) THEN i
  ELSE firstInvalidProbability(probabilities, i + 1)

\* probabilities.reduce((acc, prob) => acc * prob, 1) over the first i.
RECURSIVE productOf(_, _)
productOf(probabilities, i) ==
  IF i = 0 THEN Num(1) ELSE Mul(productOf(probabilities, i - 1), probabilities[i])

\* probabilities.reduce((sum, p) => sum + p, 0) over the first i.
RECURSIVE sumOf(_, _)
sumOf(probabilities, i) ==
  IF i = 0 THEN Num(0) ELSE Add(sumOf(probabilities, i - 1), probabilities[i])

calculateParlayProbability(probabilities) ==
  IF Len(probabilities) = 0 THEN Throw("Cannot calculate parlay with no legs")
  ELSE IF firstInvalidProbability(probabilities, 1) # 0
       THEN Throw("Invalid probability: "
                    \o numberText(probabilities[firstInvalidProbability(probabilities, 1)])
                    \o ". Must be between 0 and 1.")
  ELSE productOf(probabilities, Len(probabilities))

\* convertProbabilityToAmerican with the favourite's odds left unsigned.
convertProbabilityToAmerican_unsigned(probability) ==
  IF Leq(probability, Num(0)) \/ Geq(probability, Num(1))
  THEN Throw("Probability must be between 0 and 1 (exclusive)")
  ELSE IF Geq(probability, Frac(1, 2))
       THEN MathRound(Div(Mul(Num(100), probability), Sub(Num(1), probability)))
       ELSE MathRound(Div(Mul(Num(100), Sub(Num(1), probability)), probability))

\* convertProbabilityToAmerican of the older evCalculator: the same
\* conversion, exported.
convertProbabilityToAmerican(probability) ==
  IF Leq(probability, Num(0)) \/ Geq(probability, Num(1))
  THEN Throw("Probability must be between 0 and 1 (exclusive)")
  ELSE IF Geq(probability, Frac(1, 2))
       THEN MathRound(Div(Mul(Num(-100), probability), Sub(Num(1), probability)))
       ELSE MathRound(Div(Mul(Num(100), Sub(Num(1), probability)), probability))

convertProbabilityToFairOdds(probability) ==
  IF Leq(probability, Num(0)) \/ Geq(probability, Num(1))
  THEN Throw("Probability must be between 0 and 1")
  ELSE IF Geq(probability, Frac(1, 2))
       THEN MathRound(Div(Mul(Num(-100), probability), Sub(Num(1), probability)))
       ELSE MathRound(Div(Mul(Num(100), Sub(Num(1), probability)), probability))

\* Math.min(...probabilities) over the first i of a non-empty list.
RECURSIVE minOf(_, _)
minOf(probabilities, i) ==
  IF i = 1 THEN probabilities[1] ELSE MathMin(minOf(probabilities, i - 1), probabilities[i])

\* x.toFixed(2) for a finite x >= 0: the nearest multiple of 0.01, the
\* larger one on a tie.
toFixed2(x) ==
  LET cents == MathRound(Mul(x, Num(100))).n
  IN  ToString(cents \div 100) \o "."
        \o ToString((cents % 100) \div 10) \o ToString(cents % 10)

\* The texts of the warnings; "(!)" stands for the warning sign.
CorrelationWarnings(description) ==
  << "(!) " \o description,
     "(!) Actual probability is likely significantly lower than calculated." >>
FiveLegsWarning == "(!) Parlays with 5+ legs have exponentially lower hit rates."
LowHitRateWarning(percent) ==
  "(!) This parlay has only a " \o toFixed2(percent) \o "% chance of hitting."
WeakLegWarning == "(!) One or more legs have less than 30% chance of hitting."

\* The warnings, with the 5+ legs rule asking for more than five legs.
parlayWarnings_moreThanFive(correlationRisk, legCount, combinedProbability, percent, lowestProb) ==
  (IF correlationRisk.level \in {"Severe", "High"}
   THEN CorrelationWarnings(correlationRisk.description) ELSE <<>>)
  \o (IF legCount > 5 THEN <<FiveLegsWarning>> ELSE <<>>)
  \o (IF Less(combinedProbability, Frac(1, 20)) THEN <<LowHitRateWarning(percent)>> ELSE <<>>)
  \o (IF Less(lowestProb, Frac(3, 10)) THEN <<WeakLegWarning>> ELSE <<>>)

\* The warnings calculateFullParlay pushes, in order.
parlayWarnings(correlationRisk, legCount, combinedProbability, percent, lowestProb) ==
  (IF correlationRisk.level = "Severe" \/ correlationRisk.level = "High"
   THEN CorrelationWarnings(correlationRisk.description) ELSE <<>>)
  \o (IF legCount >= 5 THEN <<FiveLegsWarning>> ELSE <<>>)
  \o (IF Less(combinedProbability, Frac(1, 20)) THEN <<LowHitRateWarning(percent)>> ELSE <<>>)
  \o (IF Less(lowestProb, Frac(3, 10)) THEN <<WeakLegWarning>> ELSE <<>>)

\* calculateFullParlay once the combined probability and the fair odds are
\* computed; either may be the error thrown.
fullParlayOf(legs, probabilities, combinedProbability, fairOdds, correlationRisk) ==
  IF IsThrow(combinedProbability) THEN combinedProbability
  ELSE IF IsThrow(fairOdds) THEN fairOdds
  ELSE [combinedProbability |-> combinedProbability,
        combinedProbabilityPercent |-> Mul(combinedProbability, Num(100)),
        fairOdds |-> fairOdds,
        expectedLegs |-> sumOf(probabilities, Len(probabilities)),
        correlationRisk |-> correlationRisk,
        warnings |-> parlayWarnings(correlationRisk, Len(legs), combinedProbability,
                                    Mul(combinedProbability, Num(100)),
                                    minOf(probabilities, Len(probabilities)))]

fullParlayOfProbability(legs, probabilities, combinedProbability) ==
  fullParlayOf(legs, probabilities, combinedProbability,
               IF IsThrow(combinedProbability) THEN combinedProbability
               ELSE convertProbabilityToFairOdds(combinedProbability),
               detectCorrelationRisk(legs))

calculateFullParlay(legs) ==
  fullParlayOfProbability(legs, [i \in 1 .. Len(legs) |-> legs[i].probability],
    calculateParlayProbability([i \in 1 .. Len(legs) |-> legs[i].probability]))

\* ------------------------------------------------------------------------
\* Monte Carlo simulation (part_004 810-852)
\* ------------------------------------------------------------------------

\* The values Math.random() returns are read off a stream; `used` counts
\* the calls made so far.

\* The inner loop of one simulation over probabilities[j..]: the legs hit,
\* whether the parlay is still hit, and the calls of Math.random made.
RECURSIVE simulateLegs(_, _, _, _, _, _)
simulateLegs(probabilities, stream, j, legsHit, parlayHit, used) ==
  IF j > Len(probabilities)
  THEN [legsHit |-> legsHit, parlayHit |-> parlayHit, used |-> used]
  ELSE IF Less(stream[used + 1], probabilities[j])
       THEN simulateLegs(probabilities, stream, j + 1, legsHit + 1, parlayHit, used + 1)
       ELSE simulateLegs(probabilities, stream, j + 1, legsHit, FALSE, used + 1)

\* The outer loop from simulation i on (i counts from 0).
RECURSIVE simulateLoop(_, _, _, _, _, _, _, _)
simulateStep(probabilities, simulations, stream, i, hits, totalLegsHit, distribution, trial) ==
  simulateLoop(probabilities, simulations, stream, i + 1,
               IF trial.parlayHit THEN hits + 1 ELSE hits,
               totalLegsHit + trial.legsHit,
               [distribution EXCEPT ![trial.legsHit] = @ + 1],
               trial.used)

simulateLoop(probabilities, simulations, stream, i, hits, totalLegsHit, distribution, used) ==
  IF ~(i < simulations)
  THEN [hitRate |-> Div(Num(hits), Num(simulations)),
        avgLegsHit |-> Div(Num(totalLegsHit), Num(simulations)),
        distribution |-> distribution,
        randomCalls |-> used]
  ELSE simulateStep(probabilities, simulations, stream, i, hits, totalLegsHit, distribution,
                    simulateLegs(probabilities, stream, 1, 0, TRUE, used))

\* simulateParlayOutcomes(legs, simulations), with the stream Math.random
\* reads; randomCalls is the number of calls it made.
simulateParlayOutcomes(legs, simulations, stream) ==
  simulateLoop([j \in 1 .. Len(legs) |-> legs[j].probability], simulations, stream, 0, 0, 0,
               [k \in 0 .. Len(legs) |-> 0], 0)

\* ------------------------------------------------------------------------
\* Calls of the parlay calculation
\* ------------------------------------------------------------------------

\* A parlay holds at most MaxParlayLegs legs.
MaxParlayLegs == 5

LegProbabilities == {Num(0), Frac(1, 4), Frac(2, 5), Frac(9, 10), Frac(3, 2)}

\* Parlays of legs with the given probabilities: of different players in no
\* game, of one player, or of different players in one game.
ParlayShapes == {"independent", "samePlayer", "sameGame"}

ParlayOf(shape, probabilities) ==
  [i \in 1 .. Len(probabilities) |->
     ParlayLeg(IF shape = "samePlayer" THEN "p1" ELSE LegPlayers[i], "Points",
               probabilities[i], IF shape = "sameGame" THEN "g1" ELSE "", "")]

CallCalculateFullParlay ==
  /\ call = Idle
  /\ \E k \in 0 .. MaxParlayLegs :
       \E probabilities \in [1 .. k -> LegProbabilities], shape \in ParlayShapes :
         /\ call' = [fn |-> "calculateFullParlay", legs |-> ParlayOf(shape, probabilities)]
         /\ ret' = calculateFullParlay(ParlayOf(shape, probabilities))

\* A simulated parlay holds at most MaxSimLegs legs and runs at most
\* MaxTrials simulations.
MaxSimLegs == 2
MaxTrials == 2

\* Values of Math.random(), which lie in [0, 1).
RandomValues == {Num(0), Frac(1, 2)}

SimProbabilities == {Num(0), Frac(1, 2), Frac(9, 10)}

CallSimulateParlayOutcomes ==
  /\ call = Idle
  /\ \E n \in 0 .. MaxSimLegs, simulations \in 0 .. MaxTrials :
       \E probabilities \in [1 .. n -> SimProbabilities],
          stream \in [1 .. (MaxSimLegs * MaxTrials) -> RandomValues] :
         /\ call' = [fn |-> "simulateParlayOutcomes",
                     legs |-> ParlayOf("independent", probabilities),
                     simulations |-> simulations, stream |-> stream]
         /\ ret' = simulateParlayOutcomes(ParlayOf("independent", probabilities),
                                          simulations, stream)

\* The conversions are called with the probabilities of the grid and with
\* the implied probability of every price.
CallConvertProbabilityToAmerican ==
  /\ call = Idle
  /\ \E o \in OddsRange :
       \E p \in TrueProbabilities(o) :
         /\ call' = [fn |-> "convertProbabilityToAmerican", probability |-> p]
         /\ ret' = convertProbabilityToAmerican(p)

CallConvertProbabilityToFairOdds ==
  /\ call = Idle
  /\ \E o \in OddsRange :
       \E p \in TrueProbabilities(o) :
         /\ call' = [fn |-> "convertProbabilityToFairOdds", probability |-> p]
         /\ ret' = convertProbabilityToFairOdds(p)

NextParlay ==
  \/ CallCalculateFullParlay
  \/ CallSimulateParlayOutcomes
  \/ CallConvertProbabilityToAmerican
  \/ CallConvertProbabilityToFairOdds

SpecParlay == Init /\ [][NextParlay]_vars

\* ------------------------------------------------------------------------
\* pages/api/fetch-odds.ts
\* ------------------------------------------------------------------------

CACHE_WINDOW_MINUTES == 30

\* Date.now(), in minutes.
FetchNow == Num(1000)

\* x || [] for an optional array.
OrEmpty(x) == IF IsUndefined(x) THEN <<>> ELSE x.value

\* !x for an optional number.
Falsy(x) == IsUndefined(x) \/ x = Num(0)

FetchMarketMap ==
  ("player_points" :> "Points") @@ ("player_rebounds" :> "Rebounds")
    @@ ("player_assists" :> "Assists") @@ ("player_threes" :> "3-Pointers")
    @@ ("player_blocks" :> "Blocks") @@ ("player_steals" :> "Steals")
    @@ ("player_points_rebounds_assists" :> "PRA")

normalizeMarket(k) == IF k \in DOMAIN FetchMarketMap THEN FetchMarketMap[k] ELSE k

FetchSportsbookMap ==
  ("fanduel" :> "FanDuel") @@ ("draftkings" :> "DraftKings") @@ ("betmgm" :> "BetMGM")
    @@ ("caesars" :> "Caesars") @@ ("pointsbetus" :> "PointsBet")
    @@ ("prizepicks" :> "PrizePicks")

normalizeSportsbook(k) ==
  IF k \in DOMAIN FetchSportsbookMap THEN FetchSportsbookMap[k] ELSE k

\* name.toLowerCase().replace(/\s+/g, '-') on the names of the model.
PlayerIdOf ==
  ("LeBron James" :> "lebron-james") @@ ("Stephen Curry" :> "stephen-curry")

\* playerMap after the outcomes[i..] of a market: its entries in insertion
\* order, the key being the description as a property name.
RECURSIVE playerMapOf(_, _, _)
playerMapOf(outcomes, i, playerMap) ==
  IF i > Len(outcomes) THEN playerMap
  ELSE LET outcome == outcomes[i]
           playerName == outcome.description
           key == IF IsUndefined(playerName) THEN "undefined" ELSE playerName.value
           added == IF \E j \in 1 .. Len(playerMap) : playerMap[j].key = key
                    THEN playerMap
                    ELSE Append(playerMap,
                                [key |-> key, name |-> playerName, overOdds |-> Undefined,
                                 underOdds |-> Undefined, line |-> Undefined])
       IN  playerMapOf(outcomes, i + 1,
             [j \in 1 .. Len(added) |->
                IF added[j].key # key THEN added[j]
                ELSE IF outcome.name = "Over"
                     THEN [added[j] EXCEPT !.overOdds = outcome.price,
                                           !.line = outcome.point]
                ELSE IF outcome.name = "Under"
                     THEN [added[j] EXCEPT !.underOdds = outcome.price]
                ELSE added[j]])

\* The loop over the players players[j..] of a market: rows with the rows
\* pushed, or the TypeError of a name that is undefined.
RECURSIVE playerRows(_, _, _, _, _, _)
playerRows(players, j, bookmaker, market, event, rows) ==
  IF j > Len(players) THEN Resolved(rows)
  ELSE IF Falsy(players[j].overOdds) \/ Falsy(players[j].underOdds) \/ Falsy(players[j].line)
       THEN playerRows(players, j + 1, bookmaker, market, event, rows)
  ELSE IF IsUndefined(players[j].name)
       THEN Throw("Cannot read properties of undefined (reading 'toLowerCase')")
  ELSE playerRows(players, j + 1, bookmaker, market, event,
         Append(rows,
                [player_id |-> PlayerIdOf[players[j].name.value],
                 player_name |-> players[j].name.value,
                 sport |-> "NBA",
                 stat_type |-> normalizeMarket(market.key),
                 line |-> players[j].line,
                 sportsbook |-> normalizeSportsbook(bookmaker.key),
                 over_odds |-> players[j].overOdds,
                 under_odds |-> players[j].underOdds,
                 game_date |-> event.commence_time,
                 opponent |-> event.away_team \o " @ " \o event.home_team]))

\* The loop over the markets markets[m..] of a bookmaker.
RECURSIVE marketRows(_, _, _, _, _)
marketRows(bookmaker, markets, m, event, rows) ==
  IF m > Len(markets) THEN Resolved(rows)
  ELSE LET pushed == playerRows(playerMapOf(OrEmpty(markets[m].outcomes), 1, <<>>), 1,
                                bookmaker, markets[m], event, rows)
       IN  IF IsThrow(pushed) THEN pushed
           ELSE marketRows(bookmaker, markets, m + 1, event, pushed.value)

\* The loop over the bookmakers bookmakers[b..] of the response.
RECURSIVE bookmakerRows(_, _, _, _)
bookmakerRows(bookmakers, b, event, rows) ==
  IF b > Len(bookmakers) THEN Resolved(rows)
  ELSE LET pushed == marketRows(bookmakers[b], OrEmpty(bookmakers[b].markets), 1, event, rows)
       IN  IF IsThrow(pushed) THEN pushed
           ELSE bookmakerRows(bookmakers, b + 1, event, pushed.value)

\* The rows storePropsForGame builds before its insert.
storeRows(propsData, event) == bookmakerRows(OrEmpty(propsData.bookmakers), 1, event, <<>>)

\* .from('odds_snapshots').select('created_at').eq('sport', 'NBA')
\* .order('created_at', { ascending: false }).limit(1).maybeSingle()
latestSnapshot(table) ==
  LET nba == { i \in 1 .. Len(table) : table[i].sport = "NBA" }
  IN  IF nba = {} THEN Undefined
      ELSE Some(table[CHOOSE i \in nba :
                        \A j \in nba : Leq(table[j].created_at, table[i].created_at)].created_at)

\* The cache test with the window's end included.
withinCacheWindow_inclusive(minutesSinceLastFetch) ==
  Leq(minutesSinceLastFetch, Num(CACHE_WINDOW_MINUTES))

withinCacheWindow(minutesSinceLastFetch) ==
  Less(minutesSinceLastFetch, Num(CACHE_WINDOW_MINUTES))

cachedResult(minutesSinceLastFetch) ==
  [success |-> TRUE, cached |-> TRUE,
   message |-> "Using cached odds from " \o ToString(MathRound(minutesSinceLastFetch).n)
                 \o " min ago.",
   nextRefreshIn |-> MathRound(Sub(Num(CACHE_WINDOW_MINUTES), minutesSinceLastFetch))]

freshResult(events, totalPropsStored, creditsRemaining) ==
  [success |-> TRUE, cached |-> FALSE, message |-> "Successfully fetched fresh odds!",
   gamesProcessed |-> Len(events), propsStored |-> totalPropsStored,
   creditsRemaining |-> creditsRemaining]

\* The result of the catch block for a thrown value.
failedResult(error) ==
  [success |-> FALSE, cached |-> FALSE, message |-> "Failed to fetch odds",
   error |-> IF error.isError THEN error.message ELSE "Unknown error"]

\* An Error with the message, and the values a request may reject with: an
\* Error, or a value that is not one.
ErrorOf(message) == [message |-> message, isError |-> TRUE]
Rejections == { ErrorOf("fetch failed"), [message |-> "aborted", isError |-> FALSE] }

\* ------------------------------------------------------------------------
\* Runs of fetchOdds
\* ------------------------------------------------------------------------

\* The provider lists at most MaxEvents events; the snapshot table holds at
\* most MaxPriorRows rows before the run.
MaxEvents == 2
MaxPriorRows == 2

\* A row stored created_at minutes before now.
PriorRow(sport, age) ==
  [player_id |-> "lebron-james", player_name |-> "LeBron James", sport |-> sport,
   stat_type |-> "Points", line |-> Frac(51, 2), sportsbook |-> "FanDuel",
   over_odds |-> Num(-115), under_odds |-> Num(-105),
   game_date |-> "2026-02-17T19:00:00Z", opponent |-> "Celtics @ Lakers",
   created_at |-> Sub(FetchNow, age)]

PriorRows ==
  { PriorRow("NBA", Num(45)), PriorRow("NBA", Num(30)), PriorRow("NBA", Frac(59, 2)),
    PriorRow("NFL", Num(0)) }

FetchTables == UNION { [1 .. k -> PriorRows] : k \in 0 .. MaxPriorRows }

FetchEvent(id) ==
  [id |-> id, commence_time |-> "2026-02-17T19:00:00Z",
   home_team |-> "Lakers", away_team |-> "Celtics"]

AllEvents == <<FetchEvent("e1"), FetchEvent("e2"), FetchEvent("e3"), FetchEvent("e4")>>

FetchOutcome(name, description, price, point) ==
  [name |-> name, description |-> description, price |-> price, point |-> point]

FetchMarket(key, outcomes) == [key |-> key, outcomes |-> Some(outcomes)]

FetchBookmaker(key, markets) == [key |-> key, markets |-> markets]

OverUnderOutcomes(description, point) ==
  <<FetchOutcome("Over", description, Num(-115), point),
    FetchOutcome("Under", description, Num(-105), point)>>

\* The bodies of an event's odds response: without bookmakers, with a
\* bookmaker without markets, with one complete pair, with the over side
\* only, with a line of 0, with two players under keys the maps do not know,
\* and with a pair that has no description.
PropsDataValues ==
  { [bookmakers |-> Undefined],
    [bookmakers |-> Some(<<FetchBookmaker("fanduel", Undefined)>>)],
    [bookmakers |-> Some(<<FetchBookmaker("fanduel", Some(<<
        FetchMarket("player_points",
                    OverUnderOutcomes(Some("LeBron James"), Frac(51, 2)))>>))>>)],
    [bookmakers |-> Some(<<FetchBookmaker("fanduel", Some(<<
        FetchMarket("player_points",
                    <<FetchOutcome("Over", Some("LeBron James"), Num(-115),
                                   Frac(51, 2))>>)>>))>>)],
    [bookmakers |-> Some(<<FetchBookmaker("fanduel", Some(<<
        FetchMarket("player_points",
                    OverUnderOutcomes(Some("LeBron James"), Num(0)))>>))>>)],
    [bookmakers |-> Some(<<FetchBookmaker("bovada", Some(<<
        FetchMarket("player_turnovers",
                    OverUnderOutcomes(Some("LeBron James"), Frac(7, 2))
                      \o OverUnderOutcomes(Some("Stephen Curry"), Frac(5, 2)))>>))>>)],
    [bookmakers |-> Some(<<FetchBookmaker("fanduel", Some(<<
        FetchMarket("player_points", OverUnderOutcomes(Undefined, Frac(51, 2)))>>))>>)] }

NoPropsData == [bookmakers |-> Undefined]

\* What a request settles with: a rejection, a response that is not ok, or
\* an ok response with its body.
EventsResponses ==
  { [kind |-> "rejects", rejection |-> r, events |-> <<>>] : r \in Rejections }
    \cup { [kind |-> k, rejection |-> ErrorOf(""), events |-> <<>>] :
             k \in {"notOk", "notIterable"} }
    \cup { [kind |-> "ok", rejection |-> ErrorOf(""), events |-> SubSeq(AllEvents, 1, k)] :
             k \in 0 .. MaxEvents }

PropsResponses ==
  { [kind |-> "rejects", rejection |-> r, propsData |-> NoPropsData] : r \in Rejections }
    \cup { [kind |-> "notOk", rejection |-> ErrorOf(""), propsData |-> NoPropsData] }
    \cup { [kind |-> "ok", rejection |-> ErrorOf(""), propsData |-> d] :
             d \in PropsDataValues }

\* What a query settles with: its data, an error result, or a rejection.
QueryOutcomes ==
  { [kind |-> "rejects", rejection |-> r] : r \in Rejections }
    \cup { [kind |-> k, rejection |-> ErrorOf("")] : k \in {"data", "error"} }

\* fetchOdds is called: the run starts at the snapshot query, with no
\* request sent.  The run keeps the requests it sent, what each settled
\* with (responses), what the snapshot query settled with (query) and how
\* each storePropsForGame ended (stores).
CallFetchOdds ==
  /\ call = Idle
  /\ \E table \in FetchTables :
       call' = [fn |-> "fetchOdds", pc |-> "checkCache", table0 |-> table,
                table |-> table, query |-> "", requests |-> <<>>, responses |-> <<>>,
                stores |-> <<>>, events |-> <<>>,
                i |-> 1, totalPropsStored |-> 0, creditsRemaining |-> "",
                propsData |-> NoPropsData]
  /\ ret' = NoRet

\* The snapshot query settles and the cache window is tested.
FetchOdds_CheckCache ==
  /\ call.fn = "fetchOdds" /\ call.pc = "checkCache"
  /\ \E outcome \in QueryOutcomes :
       LET recentSnapshot == IF outcome.kind = "data" THEN latestSnapshot(call.table)
                             ELSE Undefined
       IN  IF outcome.kind = "rejects"
           THEN /\ call' = [call EXCEPT !.pc = "done", !.query = outcome.kind]
                /\ ret' = Resolved(failedResult(outcome.rejection))
           ELSE IF /\ ~IsUndefined(recentSnapshot)
                   /\ withinCacheWindow(Sub(FetchNow, recentSnapshot.value))
           THEN /\ call' = [call EXCEPT !.pc = "done", !.query = outcome.kind]
                /\ ret' = Resolved(cachedResult(Sub(FetchNow, recentSnapshot.value)))
           ELSE /\ call' = [call EXCEPT !.pc = "events", !.query = outcome.kind]
                /\ ret' = ret

\* The events request is sent and settles.
FetchOdds_RequestEvents ==
  /\ call.fn = "fetchOdds" /\ call.pc = "events"
  /\ \E response \in EventsResponses :
       LET sent == [call EXCEPT !.requests = Append(@, [path |-> "events", id |-> ""]),
                                !.responses = Append(@, response.kind)]
       IN  CASE response.kind = "rejects" ->
                  /\ call' = [sent EXCEPT !.pc = "done"]
                  /\ ret' = Resolved(failedResult(response.rejection))
             [] response.kind = "notOk" ->
                  /\ call' = [sent EXCEPT !.pc = "done"]
                  /\ ret' = Resolved(failedResult(ErrorOf("Failed to fetch events")))
             [] response.kind = "notIterable" ->
                  /\ call' = [sent EXCEPT !.pc = "done"]
                  /\ ret' = Resolved(failedResult(ErrorOf("events is not iterable")))
             [] response.kind = "ok" ->
                  /\ call' = [sent EXCEPT !.pc = "loop", !.events = response.events,
                                          !.creditsRemaining = "499"]
                  /\ ret' = ret

\* The odds request of the next event is sent and settles: a response that
\* is not ok is skipped.
FetchOdds_RequestEventOdds ==
  /\ call.fn = "fetchOdds" /\ call.pc = "loop" /\ call.i <= Len(call.events)
  /\ \E response \in PropsResponses :
       LET sent == [call EXCEPT !.requests =
                      Append(@, [path |-> "odds", id |-> call.events[call.i].id]),
                                !.responses = Append(@, response.kind)]
       IN  CASE response.kind = "rejects" ->
                  /\ call' = [sent EXCEPT !.pc = "done"]
                  /\ ret' = Resolved(failedResult(response.rejection))
             [] response.kind = "notOk" ->
                  /\ call' = [sent EXCEPT !.i = @ + 1]
                  /\ ret' = ret
             [] response.kind = "ok" ->
                  /\ call' = [sent EXCEPT !.pc = "store", !.propsData = response.propsData]
                  /\ ret' = ret

\* storePropsForGame: the rows are built and, if there are any, inserted in
\* one statement, whose error result is answered with 0.
FetchOdds_StoreProps ==
  /\ call.fn = "fetchOdds" /\ call.pc = "store"
  /\ LET rows == storeRows(call.propsData, call.events[call.i])
         next == [call EXCEPT !.pc = "loop", !.i = @ + 1, !.propsData = NoPropsData]
     IN  IF IsThrow(rows)
         THEN /\ call' = [call EXCEPT !.pc = "done", !.stores = Append(@, "throws")]
              /\ ret' = Resolved(failedResult(ErrorOf(rows.throw)))
         ELSE IF Len(rows.value) = 0
         THEN /\ call' = [next EXCEPT !.stores = Append(@, "no rows")]
              /\ ret' = ret
         ELSE \E outcome \in QueryOutcomes :
                CASE outcome.kind = "rejects" ->
                       /\ call' = [call EXCEPT !.pc = "done",
                                               !.stores = Append(@, "rejects")]
                       /\ ret' = Resolved(failedResult(outcome.rejection))
                  [] outcome.kind = "error" ->
                       /\ call' = [next EXCEPT !.stores = Append(@, "error")]
                       /\ ret' = ret
                  [] outcome.kind = "data" ->
                       /\ call' = [next EXCEPT
                            !.table = @ \o [r \in 1 .. Len(rows.value) |->
                                              rows.value[r] @@ [created_at |-> FetchNow]],
                            !.totalPropsStored = @ + Len(rows.value),
                            !.stores = Append(@, "inserted")]
                       /\ ret' = ret

\* Every event has been handled: the fresh result is returned.
FetchOdds_Return ==
  /\ call.fn = "fetchOdds" /\ call.pc = "loop" /\ call.i > Len(call.events)
  /\ call' = [call EXCEPT !.pc = "done"]
  /\ ret' = Resolved(freshResult(call.events, call.totalPropsStored, call.creditsRemaining))

NextFetch ==
  \/ CallFetchOdds
  \/ FetchOdds_CheckCache
  \/ FetchOdds_RequestEvents
  \/ FetchOdds_RequestEventOdds
  \/ FetchOdds_StoreProps
  \/ FetchOdds_Return

SpecFetch == Init /\ [][NextFetch]_vars

\* ------------------------------------------------------------------------
\* Reference values the claims are stated with
\* ------------------------------------------------------------------------

\* The implied probability of nonzero American odds, in closed form.
ImpliedOf(o) == IF o > 0 THEN Frac(100, o + 100) ELSE Frac(-o, 100 - o)

\* The de-vigged over probability of one quote.
DevigOverOf(o, u) == Div(ImpliedOf(o), Add(ImpliedOf(o), ImpliedOf(u)))

RECURSIVE SumDevigOver(_, _)
SumDevigOver(props, i) ==
  IF i = 0 THEN Num(0)
  ELSE Add(SumDevigOver(props, i - 1), DevigOverOf(props[i].overOdds, props[i].underOdds))

MeanDevigOver(props) == Div(SumDevigOver(props, Len(props)), Num(Len(props)))

AllOddsNonzero(props) ==
  \A i \in 1 .. Len(props) : props[i].overOdds # 0 /\ props[i].underOdds # 0

InOpenUnit(x) == Less(Num(0), x) /\ Less(x, Num(1))

\* ------------------------------------------------------------------------
\* C1 - C3: odds conversion, vig removal, consensus
\* ------------------------------------------------------------------------

C2_RemoveVigContract ==
  /\ (call.fn = "removeVig" /\ call.overImplied.n > 0 /\ call.underImplied.n > 0) =>
       /\ ~IsThrow(ret)
       /\ Mul(ret.over, Add(call.overImplied, call.underImplied)) = call.overImplied
       /\ Mul(ret.under, Add(call.overImplied, call.underImplied)) = call.underImplied
       /\ Add(ret.over, ret.under) = Num(1)
       /\ Add(Div(ret.vigPercent, Num(100)), Num(1))
            = Add(call.overImplied, call.underImplied)
  /\ (call.fn = "removeVig"
        /\ Add(call.overImplied, call.underImplied) = Num(0)) => IsThrow(ret)
  /\ (call.fn = "evc_removeVig"
        /\ Add(americanToImpliedProbability(call.overOdds),
               americanToImpliedProbability(call.underOdds)) = Num(0)) => IsThrow(ret)

\* C3: for every integer odds o # 0 both conversions return 100/(o+100)
\* for o > 0 and |o|/(|o|+100) for o < 0, strictly between 0 and 1.
C3_ImpliedProbability ==
  (call.fn \in {"convertAmericanToProbability", "americanToImpliedProbability"}
     /\ call.odds # 0) =>
    /\ ~IsThrow(ret)
    /\ ret = ImpliedOf(call.odds)
    /\ InOpenUnit(ret)
    /\ (call.odds = -110 => ret = Frac(110, 210))
    /\ (call.odds = 150 => ret = Frac(4, 10))

C3_Witness ==
  /\ call.fn = "convertAmericanToProbability"
  /\ call.odds = -110
  /\ ret = Frac(11, 21)

\* ------------------------------------------------------------------------
\* C4: calculateEV
\* ------------------------------------------------------------------------

\* The decimal odds of nonzero American odds, in closed form.
DecimalOf(o) == IF o > 0 THEN Frac(o + 100, 100) ELSE Frac(100 - o, -o)

SideEV(p, o) == Mul(Num(100), Sub(Mul(p, DecimalOf(o)), Num(1)))
SideEdge(p, o) == Mul(Sub(Div(p, ImpliedOf(o)), Num(1)), Num(100))
SideEdgeDifference(p, o) == Mul(Sub(p, ImpliedOf(o)), Num(100))

RowsAsProps(rows) ==
  [i \in 1 .. Len(rows) |->
     [overOdds |-> rows[i].over_odds, underOdds |-> rows[i].under_odds]]

\* Entry e for quote `row` is wholly the Over side or wholly the Under
\* side, and that side's EV is not below the other side's.
EntryIsBestSide(e, row, pOver, pUnder) ==
  LET evOver == SideEV(pOver, row.over_odds)
      evUnder == SideEV(pUnder, row.under_odds)
  IN  /\ e.best_sportsbook = row.sportsbook
      /\ \/ /\ e.direction = "Over"
            /\ e.best_odds = row.over_odds
            /\ e.true_prob = pOver /\ e.market_consensus_prob = pOver
            /\ e.implied_prob = pOver
            /\ e.ev_pct = evOver
            /\ e.edge_pct = SideEdge(pOver, row.over_odds)
            /\ Geq(evOver, evUnder)
         \/ /\ e.direction = "Under"
            /\ e.best_odds = row.under_odds
            /\ e.true_prob = pUnder /\ e.market_consensus_prob = pUnder
            /\ e.implied_prob = pUnder
            /\ e.ev_pct = evUnder
            /\ e.edge_pct = SideEdge(pUnder, row.under_odds)
            /\ Geq(evUnder, evOver)

\* The best entry of the mock generator: one side of one quote, with EV
\* not below any side of any quote of the group.
MockEntryIsBest(e, lines, pOver) ==
  LET pUnder == Sub(Num(1), pOver)
  IN  /\ \E i \in 1 .. Len(lines) :
           /\ e.best_sportsbook = lines[i].sportsbook
           /\ \/ /\ e.direction = "Over" /\ e.best_odds = lines[i].over_odds
                 /\ e.true_prob = pOver
                 /\ e.ev_pct = SideEV(pOver, lines[i].over_odds)
                 /\ e.edge_pct = SideEdgeDifference(pOver, lines[i].over_odds)
              \/ /\ e.direction = "Under" /\ e.best_odds = lines[i].under_odds
                 /\ e.true_prob = pUnder
                 /\ e.ev_pct = SideEV(pUnder, lines[i].under_odds)
                 /\ e.edge_pct = SideEdgeDifference(pUnder, lines[i].under_odds)
      /\ \A i \in 1 .. Len(lines) :
           /\ Geq(e.ev_pct, SideEV(pOver, lines[i].over_odds))
           /\ Geq(e.ev_pct, SideEV(pUnder, lines[i].under_odds))

\* Every entry calculateAllEVs built: the all_player_lines of its records.
AllPlayerLines(records) ==
  UNION { { records[k].all_player_lines[i] :
              i \in 1 .. Len(records[k].all_player_lines) } : k \in 1 .. Len(records) }

NameRank(name) == CHOOSE i \in 1 .. Len(Sportsbooks) : Sportsbooks[i] = name

\* a is ranked before b: higher EV, then higher confidence, then the
\* lexicographically smaller sportsbook name.
RankedBefore(a, b) ==
  \/ Greater(a.ev_pct, b.ev_pct)
  \/ /\ a.ev_pct = b.ev_pct
     /\ \/ Greater(a.confidence_score, b.confidence_score)
        \/ /\ a.confidence_score = b.confidence_score
           /\ NameRank(a.best_sportsbook) < NameRank(b.best_sportsbook)

\* C6: the entries of one prop group are ordered by EV descending, ties by
\* higher confidence, then by sportsbook name ascending.
C6_DeterministicRanking ==
  (call.fn = "calculatePropEV" /\ ~IsThrow(ret)) =>
    \A k \in 1 .. (Len(ret.value) - 1) : RankedBefore(ret.value[k], ret.value[k + 1])

Approx(x, target, tol) == Leq(MathAbs(Sub(x, target)), tol)
ProbTol == Frac(1, 10000)
PctTol == Frac(1, 20)

DKRow == [sportsbook |-> "DraftKings", over_odds |-> -115, under_odds |-> -105]
FDRow == [sportsbook |-> "FanDuel", over_odds |-> 100, under_odds |-> -120]
MGMRow == [sportsbook |-> "BetMGM", over_odds |-> -110, under_odds |-> -110]

IsRow(row, q) ==
  row.sportsbook = q.sportsbook /\ row.over_odds = q.over_odds
    /\ row.under_odds = q.under_odds

\* The three quotes of the worked example, in any order.
IsWorkedExample(odds) ==
  /\ Len(odds) = 3
  /\ \A q \in {DKRow, FDRow, MGMRow} : \E i \in 1 .. 3 : IsRow(odds[i], q)

DevigOverByCode(q) ==
  removeVig(convertAmericanToProbability(q.over_odds),
            convertAmericanToProbability(q.under_odds)).over

EntryOf(entries, book) ==
  CHOOSE e \in { entries[k] : k \in 1 .. Len(entries) } : e.best_sportsbook = book

\* C7: DK(-115/-105), FD(+100/-120), MGM(-110/-110): de-vigged overs about
\* 0.5109, 0.4783, 0.5; consensus about 0.4964 / 0.5036; the six EVs about
\* -7.2, -0.7, -5.2 (Over) and -1.7, -7.7, -3.9 (Under), all negative; the
\* first-ranked entry is FD Over at about -0.7.
C7_WorkedExample ==
  (call.fn = "calculatePropEV" /\ IsWorkedExample(call.odds)) =>
    LET c == calculateMarketConsensus(RowsAsProps(call.odds))
        ev(p, o) == calculateEV(p, o, Num(100)).expectedValue
        first == ret.value[1]
    IN  /\ ~IsThrow(ret)
        /\ Approx(DevigOverByCode(DKRow), Frac(5109, 10000), ProbTol)
        /\ Approx(DevigOverByCode(FDRow), Frac(4783, 10000), ProbTol)
        /\ DevigOverByCode(MGMRow) = Frac(1, 2)
        /\ Approx(c.over, Frac(4964, 10000), ProbTol)
        /\ Approx(c.under, Frac(5036, 10000), ProbTol)
        /\ Approx(ev(c.over, -115), Frac(-72, 10), PctTol)
        /\ Approx(ev(c.over, 100), Frac(-7, 10), PctTol)
        /\ Approx(ev(c.over, -110), Frac(-52, 10), PctTol)
        /\ Approx(ev(c.under, -105), Frac(-17, 10), PctTol)
        /\ Approx(ev(c.under, -120), Frac(-77, 10), PctTol)
        /\ Approx(ev(c.under, -110), Frac(-39, 10), PctTol)
        /\ Len(ret.value) = 3
        /\ \A k \in 1 .. 3 : Less(ret.value[k].ev_pct, Num(0))
        /\ first.best_sportsbook = "FanDuel" /\ first.direction = "Over"
        /\ first.best_odds = 100
        /\ Approx(first.ev_pct, Frac(-7, 10), PctTol)
        /\ Approx(first.true_prob, Frac(4964, 10000), ProbTol)
        /\ EntryOf(ret.value, "DraftKings").direction = "Under"
        /\ Approx(EntryOf(ret.value, "DraftKings").ev_pct, Frac(-17, 10), PctTol)
        /\ EntryOf(ret.value, "BetMGM").direction = "Under"
        /\ Approx(EntryOf(ret.value, "BetMGM").ev_pct, Frac(-39, 10), PctTol)

C7_Witness ==
  /\ call.fn = "calculatePropEV"
  /\ Len(call.odds) = 3
  /\ IsRow(call.odds[1], DKRow) /\ IsRow(call.odds[2], FDRow) /\ IsRow(call.odds[3], MGMRow)
  /\ ~IsThrow(ret)
  /\ ret.value[1].best_sportsbook = "FanDuel"
  /\ ret.value[2].best_sportsbook = "DraftKings"
  /\ ret.value[3].best_sportsbook = "BetMGM"

\* The prop groups of a snapshot table that hold a PrizePicks quote (the
\* book the service evaluates), as (player_id, stat_type, line) triples.
EvaluatedGroups(snapshots, sport) ==
  { <<snapshots[i].player_id, snapshots[i].stat_type, snapshots[i].line>> :
      i \in { j \in 1 .. Len(snapshots) :
                snapshots[j].sportsbook = "PrizePicks" /\ snapshots[j].sport = sport } }

GroupRows(snapshots, g) ==
  SelectSeq(snapshots, LAMBDA x : <<x.player_id, x.stat_type, x.line>> = g)

\* C8: the output holds one record per prop group - two groups of one
\* player both appear - and a record's all_odds is the full set of the
\* group's quotes, every sportsbook's quote that entered its consensus.
C8_OneRecordPerGroup ==
  (call.fn = "calculateAllEVs" /\ ~call.queryError /\ IsUndefined(call.filters.minEV)) =>
    /\ ~IsThrow(ret)
    /\ \A g \in EvaluatedGroups(call.snapshots, "NBA") :
         \E k \in 1 .. Len(ret.value) :
           /\ <<ret.value[k].player_id, ret.value[k].stat_type, ret.value[k].best_line>> = g
           /\ { ret.value[k].all_odds[i] : i \in 1 .. Len(ret.value[k].all_odds) }
                = { GroupRows(call.snapshots, g)[i] :
                      i \in 1 .. Len(GroupRows(call.snapshots, g)) }

\* ------------------------------------------------------------------------
\* C9, C10: the normalizer never throws
\* ------------------------------------------------------------------------

NormalizedPropFields ==
  {"playerId", "playerName", "sport", "statType", "line", "overOdds", "underOdds",
   "sportsbook", "timestamp"}

IsNormalizedProp(v) == v.t = "object" /\ DOMAIN v.f = NormalizedPropFields

\* The result of normalizing each record of a batch on its own.
IndependentResults(rawProps, sportsbook) ==
  [i \in 1 .. Len(rawProps) |-> normalizeAny(rawProps[i], sportsbook)]

\* C9: normalizeBatch returns without throwing for any input list (null and
\* undefined records included), and its output is exactly the non-null
\* results of normalizing each record independently, in input order.
C9_BatchNeverFails ==
  call.fn = "normalizeBatch" =>
    /\ ~IsThrow(ret)
    /\ ret.value = SelectSeq(IndependentResults(call.rawProps, call.sportsbook),
                             LAMBDA r : ~IsThrow(r) /\ r # JSNull)

\* The fields an adapter requires are present in the record.
PrizePicksFieldsPresent(raw) ==
  /\ ~IsNullish(raw)
  /\ ~IsNullish(OptProp(Prop(raw, "player"), "id"))
  /\ ~IsNullish(OptProp(Prop(raw, "player"), "name"))
  /\ ~IsNullish(Prop(raw, "line_score"))

DraftKingsFieldsPresent(raw) ==
  /\ ~IsNullish(raw)
  /\ ~IsNullish(OptProp(Prop(raw, "participant"), "participantId"))
  /\ ~IsNullish(OptProp(Prop(raw, "participant"), "name"))
  /\ ~IsNullish(Prop(raw, "offers"))

\* C10: normalizeAny never throws: for every raw value and hint it returns
\* a NormalizedProp or null, and null whenever the required fields of no
\* adapter, or of the matching adapter, are present.
C10_NormalizeAnyNeverThrows ==
  call.fn = "normalizeAny" =>
    /\ ~IsThrow(ret)
    /\ ret = JSNull \/ IsNormalizedProp(ret)
    /\ ret # JSNull =>
         \/ ret.f.sportsbook = JSString("PrizePicks") /\ PrizePicksFieldsPresent(call.raw)
         \/ ret.f.sportsbook = JSString("DraftKings") /\ DraftKingsFieldsPresent(call.raw)

\* ------------------------------------------------------------------------
\* C11: hint first, then structural auto-detection
\* ------------------------------------------------------------------------

\* What the adapter named by the hint yields: null when the hint names no
\* adapter.
HintedResult(raw, sportsbook) ==
  IF ~Truthy(sportsbook) THEN JSNull
  ELSE IF toLowerCase(sportsbook.str) = "prizepicks" THEN normalizePrizePicks(raw)
  ELSE IF toLowerCase(sportsbook.str) = "draftkings" THEN normalizeDraftKings(raw)
  ELSE JSNull

\* C11: normalizeAny returns the hinted adapter's prop when it yields one;
\* when it yields none, or the hint names no adapter, it returns what the
\* structural auto-detection returns - so a record of one supported shape
\* is normalized whatever adapter the hint names.
C11_HintThenAutoDetect ==
  (call.fn = "normalizeAny" /\ ~IsNullish(call.raw)) =>
    ret = IF HintedResult(call.raw, call.sportsbook) # JSNull
          THEN HintedResult(call.raw, call.sportsbook)
          ELSE autoDetect(call.raw)

\* The outcome of an aggregator market named like one side.
IsSideOutcome(o, side) ==
  /\ o.t = "object" /\ Prop(o, "name").t = "string"
  /\ \/ side = "over" /\ includesOver(toLowerCase(Prop(o, "name").str))
     \/ side = "under" /\ includesUnder(toLowerCase(Prop(o, "name").str))

Range(s) == { s[i] : i \in 1 .. Len(s) }

\* The quotes of one market of a bookmaker: the title, the point of an over
\* outcome and the prices of the over and an under outcome.
MarketQuotes(bookmaker, market) ==
  { [sportsbook |-> Prop(bookmaker, "title"), line |-> Prop(over, "point"),
     overOdds |-> Prop(over, "price"), underOdds |-> Prop(under, "price")] :
      over \in { o \in Range(Prop(market, "outcomes").a) :
                  /\ IsSideOutcome(o, "over")
                  /\ Prop(o, "point").t = "number"
                  /\ Prop(o, "price").t = "number" },
      under \in { o \in Range(Prop(market, "outcomes").a) :
                   IsSideOutcome(o, "under") /\ Prop(o, "price").t = "number" } }

BookmakerQuotes(bookmaker) ==
  UNION { MarketQuotes(bookmaker, m) :
            m \in { mk \in Range(Prop(bookmaker, "markets").a) :
                      mk.t = "object" /\ Prop(mk, "outcomes").t = "array" } }

\* The quotes an aggregator payload carries, over its titled bookmakers.
AggregatorQuotes(raw) ==
  IF ~(raw.t = "object" /\ Truthy(Prop(raw, "sport_key")) /\ Prop(raw, "bookmakers").t = "array")
  THEN {}
  ELSE UNION { BookmakerQuotes(b) :
                 b \in { x \in Range(Prop(raw, "bookmakers").a) :
                           /\ x.t = "object"
                           /\ Prop(x, "title").t = "string"
                           /\ Prop(x, "title").str # ""
                           /\ Prop(x, "markets").t = "array" } }

\* A payload all of whose bookmakers, markets and outcomes are objects.
WellFormedAggregator(raw) ==
  /\ raw.t = "object" /\ Prop(raw, "bookmakers").t = "array"
  /\ \A b \in Range(Prop(raw, "bookmakers").a) :
       /\ b.t = "object" /\ Prop(b, "markets").t = "array"
       /\ \A m \in Range(Prop(b, "markets").a) :
            /\ m.t = "object" /\ Prop(m, "outcomes").t = "array"
            /\ \A o \in Range(Prop(m, "outcomes").a) : o.t = "object"

\* The props a result of normalizeAny holds: the elements of a list, the
\* one prop, or none.
PropsOfResult(result) ==
  IF IsThrow(result) THEN <<>>
  ELSE IF result.t = "array" THEN result.a
  ELSE IF result.t = "object" THEN <<result>>
  ELSE <<>>

HasQuote(props, q) ==
  \E k \in 1 .. Len(props) :
    /\ props[k].t = "object"
    /\ Prop(props[k], "sportsbook") = q.sportsbook
    /\ Prop(props[k], "line") = q.line
    /\ Prop(props[k], "overOdds") = q.overOdds
    /\ Prop(props[k], "underOdds") = q.underOdds

\* The adapter itself, called with the player, returns a prop for every
\* quote of a well-formed aggregator payload.
TheOddsApiAdapterQuotes ==
  (call.fn = "normalizeTheOddsApi" /\ WellFormedAggregator(call.raw)) =>
    \A q \in AggregatorQuotes(call.raw) : HasQuote(ret.value, q)

TheOddsApiAdapterQuoted ==
  /\ call.fn = "normalizeTheOddsApi" /\ WellFormedAggregator(call.raw)
  /\ AggregatorQuotes(call.raw) # {}
  /\ Len(ret.value) = 2

\* C12: through normalizeAny and normalizeBatch, a payload of the aggregator
\* shape (sport_key, bookmakers with a title, a market with an over outcome
\* carrying a point and an under outcome) yields a NormalizedProp whose line
\* is the over outcome's point, whose odds are the two prices and whose
\* sportsbook is the bookmaker's title.
C12_AggregatorShapeSupported ==
  /\ (call.fn = "normalizeAny" /\ ~IsNullish(call.raw)) =>
       \A q \in AggregatorQuotes(call.raw) : HasQuote(PropsOfResult(ret), q)
  /\ (call.fn = "normalizeBatch" /\ ~IsThrow(ret)) =>
       \A i \in 1 .. Len(call.rawProps) :
         ~IsNullish(call.rawProps[i]) =>
           \A q \in AggregatorQuotes(call.rawProps[i]) : HasQuote(ret.value, q)

\* The NormalizedProp invariant: the five string fields are non-empty
\* strings, line is a finite number, both odds are finite nonzero integers
\* and the timestamp parses.
IsNonEmptyString(v) == v.t = "string" /\ trim(v.str) # ""
IsFiniteNumber(v) == v.t = "number" /\ IsFinite(v.num)
IsAmericanOdds(v) == IsFiniteNumber(v) /\ v.num.d = 1 /\ v.num.n # 0

NormalizedPropInvariant(prop) ==
  /\ prop.t = "object"
  /\ \A name \in {"playerId", "playerName", "sport", "statType", "sportsbook"} :
       IsNonEmptyString(Prop(prop, name))
  /\ IsFiniteNumber(Prop(prop, "line"))
  /\ IsAmericanOdds(Prop(prop, "overOdds"))
  /\ IsAmericanOdds(Prop(prop, "underOdds"))
  /\ Prop(prop, "timestamp").t = "string" /\ ~IsNaN(DateParse(Prop(prop, "timestamp")))

\* C13: validate(prop) returns true exactly when the NormalizedProp
\* invariant holds of prop; it returns false for odds of 0 and for infinite
\* values.
C13_ValidateIffInvariant ==
  (call.fn = "validate" /\ ~IsThrow(ret)) =>
    (ret.value <=> NormalizedPropInvariant(call.prop))

\* The props a call of the normalizer returned.
ReturnedProps ==
  IF call.fn = "normalizeAny" THEN PropsOfResult(ret)
  ELSE IF call.fn \in {"normalizeBatch", "normalizeTheOddsApi"} /\ ~IsThrow(ret) THEN ret.value
  ELSE <<>>

\* C14: every NormalizedProp an adapter, normalizeAny or normalizeBatch
\* returns satisfies the NormalizedProp invariant: non-empty string fields,
\* finite line and odds (never NaN), nonzero odds, a timestamp that parses.
C14_ReturnedPropsSatisfyInvariant ==
  \A k \in 1 .. Len(ReturnedProps) : NormalizedPropInvariant(ReturnedProps[k])

\* A value of a vocabulary field that the adapter's table does not list.
IsUnknownWord(v, table) == v.t = "string" /\ v.str # "" /\ v.str \notin DOMAIN table
IsUnknownStat(v) ==
  v.t = "string" /\ v.str # "" /\ toLowerCase(v.str) \notin DOMAIN PrizePicksStatMap

\* The keys of the markets of an aggregator payload.
MarketKeys(raw) ==
  UNION { { Prop(m, "key") : m \in { x \in Range(Prop(b, "markets").a) : x.t = "object" } } :
            b \in { x \in Range(Prop(raw, "bookmakers").a) :
                      x.t = "object" /\ Prop(x, "markets").t = "array" } }

\* C15: a sport or stat-type value outside an adapter's vocabulary table is
\* copied unchanged into the sport / statType field of the NormalizedProp;
\* no placeholder is substituted for it.
C15_UnknownVocabularyCopied ==
  /\ (call.fn = "normalizeAny" /\ PropsOfResult(ret) # <<>>
        /\ Prop(ret, "sportsbook") = JSString("PrizePicks")) =>
       /\ IsUnknownWord(Prop(call.raw, "league"), PrizePicksSportMap) =>
            Prop(ret, "sport") = Prop(call.raw, "league")
       /\ IsUnknownStat(Prop(call.raw, "stat_type")) =>
            Prop(ret, "statType") = Prop(call.raw, "stat_type")
  /\ (call.fn = "normalizeAny" /\ PropsOfResult(ret) # <<>>
        /\ Prop(ret, "sportsbook") = JSString("DraftKings")) =>
       (IsUnknownWord(Prop(call.raw, "subcategoryId"), DraftKingsSportMap) =>
          Prop(ret, "sport") = Prop(call.raw, "subcategoryId"))
  /\ call.fn = "normalizeTheOddsApi" =>
       \A k \in 1 .. Len(ret.value) :
         /\ IsUnknownWord(Prop(call.raw, "sport_key"), TheOddsApiSportMap) =>
              Prop(ret.value[k], "sport") = Prop(call.raw, "sport_key")
         /\ (\A key \in MarketKeys(call.raw) : IsUnknownWord(key, TheOddsApiStatMap)) =>
              Prop(ret.value[k], "statType") \in MarketKeys(call.raw)

\* The odds argument of a single-item call.
OddsOfCall ==
  IF call.fn \in {"calculateEV", "calculateEV_v1"} THEN call.bookOdds
  ELSE IF call.fn \in {"evc_calculateEV", "calculateKelly"} THEN call.americanOdds
  ELSE call.odds

SingleItemCalls ==
  { "convertAmericanToProbability", "americanToImpliedProbability",
    "convertAmericanToDecimal", "americanToDecimal",
    "calculateEV", "calculateEV_v1", "evc_calculateEV", "calculateKelly" }

\* C16: odds of 0 given to a single-item function (the conversions to a
\* probability or to decimal odds, calculateEV, calculateKelly) end in an
\* error, never in a number, NaN or Infinity.
C16_ZeroOddsFailFast ==
  (call.fn \in SingleItemCalls /\ OddsOfCall = 0) => IsThrow(ret)

ConsensusCalls ==
  {"calculateMarketConsensus", "calculateMarketConsensus_v1", "evc_calculateMarketConsensus"}

\* C17: every consensus implementation fails with an error on an empty
\* quote group; none returns a default consensus for it.
C17_EmptyGroupFails ==
  (call.fn \in ConsensusCalls /\ Len(call.props) = 0) => IsThrow(ret)

CalculateEVCalls == {"calculateEV", "calculateEV_v1", "evc_calculateEV"}

\* C18: calculateEV fails for every trueProbability outside the open
\* interval (0,1), 0 and 1 included; it returns a result only for
\* 0 < trueProbability < 1.
C18_ProbabilityDomain ==
  (call.fn \in CalculateEVCalls /\ ~InOpenUnit(call.trueProbability)) => IsThrow(ret)

\* The Kelly fraction (b*p - (1 - p)) / b for net decimal odds b.
KellyFraction(b, p) == Div(Sub(Mul(b, p), Sub(Num(1), p)), b)

ConfidenceOf(n) ==
  IF Less(Frac(5 + n, 10), Frac(19, 20)) THEN Frac(5 + n, 10) ELSE Frac(19, 20)

\* C20: the confidence of a group of n quotes is min(0.95, 0.5 + 0.1*n), in
\* the consensus result and in every EV record built for the group.
C20_ConfidenceOfSampleSize ==
  /\ (call.fn = "calculateMarketConsensus" /\ ~IsThrow(ret)) =>
       ret.confidence = ConfidenceOf(Len(call.props))
  /\ (call.fn = "calculatePropEV" /\ ~IsThrow(ret)) =>
       \A k \in 1 .. Len(ret.value) :
         ret.value[k].confidence_score = ConfidenceOf(Len(call.odds))
  /\ (call.fn = "calculateAllEVs" /\ ~IsThrow(ret)) =>
       \A k \in 1 .. Len(ret.value) :
         ret.value[k].confidence_score = ConfidenceOf(Len(ret.value[k].all_odds))

\* Two legs of the list have the same value of a field.
SharedField(legs, field) ==
  \E i, j \in 1 .. Len(legs) : i # j /\ legs[i][field] = legs[j][field] /\ legs[i][field] # ""

\* C21: detectCorrelationRisk returns level Severe exactly when two legs
\* have the same playerId, whatever their gameId, team and statType; it
\* returns None for a list of one leg and for the empty list.
C21_SevereIffSamePlayer ==
  call.fn = "detectCorrelationRisk" =>
    /\ (ret.level = "Severe") <=> SharedField(call.legs, "playerId")
    /\ Len(call.legs) <= 1 => ret.level = "None"

\* Two legs of one player that differ in game, team and stat type.
C21_Witness ==
  /\ call.fn = "detectCorrelationRisk"
  /\ Len(call.legs) = 2
  /\ call.legs[1].playerId = call.legs[2].playerId
  /\ call.legs[1].gameId # call.legs[2].gameId
  /\ call.legs[1].team # call.legs[2].team
  /\ call.legs[1].statType # call.legs[2].statType
  /\ ret.level = "Severe"
  /\ ret.affectedLegs = 2

\* The stat types of the list hold a known-correlated pair.
CorrelatedPair(legs) ==
  \/ hasStat(legs, "PRA")
       /\ (hasStat(legs, "Points") \/ hasStat(legs, "Rebounds") \/ hasStat(legs, "Assists"))
  \/ hasStat(legs, "Passing Yards") /\ hasStat(legs, "Touchdowns")

\* C22: detectCorrelationRisk returns the first matching level in the order
\* Severe (two legs of one player), High (two or more legs of one game),
\* Medium (two or more legs of one team), Low (a known-correlated pair of
\* stat types), None.
C22_FirstMatchingLevel ==
  call.fn = "detectCorrelationRisk" =>
    ret.level = IF SharedField(call.legs, "playerId") THEN "Severe"
                ELSE IF SharedField(call.legs, "gameId") THEN "High"
                ELSE IF SharedField(call.legs, "team") THEN "Medium"
                ELSE IF CorrelatedPair(call.legs) THEN "Low"
                ELSE "None"

\* The product of the probabilities of legs[i..].
RECURSIVE CombinedFrom(_, _)
CombinedFrom(legs, i) ==
  IF i > Len(legs) THEN Num(1) ELSE Mul(legs[i].probability, CombinedFrom(legs, i + 1))

\* C23: the warnings of calculateFullParlay are built by four rules, in this
\* order: the correlation warning iff the level is High or Severe, the 5+
\* legs warning iff there are five legs or more, the low-hit-rate warning iff
\* combinedProbability < 0.05, the weak-leg warning iff a leg's probability
\* is below 0.3; nothing else is emitted.
C23_WarningRules ==
  (call.fn = "calculateFullParlay" /\ ~IsThrow(ret)) =>
    ret.warnings =
      (IF ret.correlationRisk.level \in {"High", "Severe"}
       THEN CorrelationWarnings(ret.correlationRisk.description) ELSE <<>>)
      \o (IF Len(call.legs) >= 5 THEN <<FiveLegsWarning>> ELSE <<>>)
      \o (IF Less(CombinedFrom(call.legs, 1), Frac(1, 20))
          THEN <<LowHitRateWarning(Mul(CombinedFrom(call.legs, 1), Num(100)))>> ELSE <<>>)
      \o (IF \E i \in 1 .. Len(call.legs) : Less(call.legs[i].probability, Frac(3, 10))
          THEN <<WeakLegWarning>> ELSE <<>>)

\* Five legs of one game, none weak, with a combined probability of 0.01024:
\* the correlation, 5+ legs and low-hit-rate warnings without the weak-leg one.
C23_Witness ==
  /\ call.fn = "calculateFullParlay"
  /\ ~IsThrow(ret)
  /\ Len(call.legs) = 5
  /\ ret.correlationRisk.level = "High"
  /\ ret.combinedProbability = Frac(32, 3125)
  /\ Len(ret.warnings) = 4
  /\ ret.warnings[3] = FiveLegsWarning
  /\ ret.warnings[4] = "(!) This parlay has only a 1.02% chance of hitting."

\* The legs of trial t (counted from 1) whose draw is below their probability,
\* the draws being read off the stream in order, one per leg per trial.
LegsHitIn(legs, stream, t) ==
  { j \in 1 .. Len(legs) : Less(stream[(t - 1) * Len(legs) + j], legs[j].probability) }

TrialsWithHits(legs, stream, trials, k) ==
  { t \in 1 .. trials : Cardinality(LegsHitIn(legs, stream, t)) = k }

\* The sum of weight(k) * distribution[k] over k = 0..n.
RECURSIVE WeightedCount(_, _, _)
WeightedCount(distribution, n, byLegs) ==
  IF n < 0 THEN 0
  ELSE (IF byLegs THEN n ELSE 1) * distribution[n] + WeightedCount(distribution, n - 1, byLegs)

\* What the claim C24 says of a call simulateParlayOutcomes(legs, trials).
SimulationCounts ==
  /\ ret.randomCalls = call.simulations * Len(call.legs)
  /\ DOMAIN ret.distribution = 0 .. Len(call.legs)
  /\ \A k \in 0 .. Len(call.legs) :
       ret.distribution[k]
         = Cardinality(TrialsWithHits(call.legs, call.stream, call.simulations, k))
  /\ WeightedCount(ret.distribution, Len(call.legs), FALSE) = call.simulations
  /\ Mul(ret.hitRate, Num(call.simulations)) = Num(ret.distribution[Len(call.legs)])
  /\ Mul(ret.avgLegsHit, Num(call.simulations))
       = Num(WeightedCount(ret.distribution, Len(call.legs), TRUE))

\* C24: for every legs, every number of trials and every sequence of draws,
\* simulateParlayOutcomes makes trials * n draws, a leg is hit iff its draw is
\* below its probability, distribution has the keys 0..n and counts the
\* trials by legs hit, the counts sum to trials, hitRate * trials =
\* distribution[n] and avgLegsHit * trials = sum k * distribution[k].
C24_SimulationCounts ==
  call.fn = "simulateParlayOutcomes" => SimulationCounts

\* The same counts hold of every call with at least one trial; with
\* trials = 0 all counts are 0 and hitRate and avgLegsHit are 0/0 = NaN.
SimulationCountsOfSomeTrials ==
  (call.fn = "simulateParlayOutcomes" /\ call.simulations >= 1) => SimulationCounts

\* Two trials of two legs: one trial hits both legs, the other one leg.
SimulationOfTwoTrials ==
  /\ call.fn = "simulateParlayOutcomes"
  /\ call.simulations = 2
  /\ Len(call.legs) = 2
  /\ ret.randomCalls = 4
  /\ ret.distribution = [k \in 0 .. 2 |-> IF k = 0 THEN 0 ELSE 1]
  /\ ret.hitRate = Frac(1, 2)
  /\ ret.avgLegsHit = Frac(3, 2)

\* The records calculateAllEVs returns, with the records of each player's
\* all_player_lines.
AllEVRecords ==
  IF call.fn = "calculateAllEVs" /\ ~IsThrow(ret)
  THEN UNION { {ret.value[i]} \cup Range(ret.value[i].all_player_lines) :
               i \in 1 .. Len(ret.value) }
  ELSE {}

\* The odds rows calculateAllEVs reads: those of the sport and of PrizePicks.
AllOddsOfCall ==
  { r \in Range(call.snapshots) :
      /\ r.sport = (IF IsUndefined(call.filters.sport) THEN "NBA"
                    ELSE call.filters.sport.value)
      /\ r.sportsbook = "PrizePicks" }

\* C25: calculateAllEVs puts quotes in the same prop group iff they have
\* the same (playerId, statType, line): the quotes joined to a consensus
\* row are exactly the odds rows of that row's triple, so two different
\* triples never have their quotes or consensus mixed.
C25_GroupedByTriple ==
  \A e \in AllEVRecords :
    Range(e.all_odds)
      = { r \in AllOddsOfCall :
            r.player_id = e.player_id /\ r.stat_type = e.stat_type /\ r.line = e.best_line }

C27_DfsNullIffFieldAbsent ==
  ( /\ call.fn = "normalizeAny"
    /\ call.raw \in PrizePicksRaws
    /\ call.sportsbook \in {JSUndefined, JSString("prizepicks"), JSString("PrizePicks")} )
  => /\ ~IsThrow(ret)
     /\ ret = JSNull <=> ~PrizePicksFieldsPresent(call.raw)
     /\ ret # JSNull =>
          /\ ret.f.playerId = call.raw.f.player.f.id
          /\ ret.f.playerName = call.raw.f.player.f.name
          /\ ret.f.line = call.raw.f.line_score

\* ------------------------------------------------------------------------
\* C28: default prices
\* ------------------------------------------------------------------------

\* An object with the field name set to v when it has none (or null).
WithDefault(v, name, default) ==
  IF v.t = "object" /\ IsNullish(Prop(v, name))
  THEN JSObject([k \in DOMAIN v.f \cup {name} |-> IF k = name THEN default ELSE v.f[k]])
  ELSE v

\* An object whose array field name has f applied to each element.
OverElements(v, name, f(_)) ==
  IF v.t = "object" /\ Prop(v, name).t = "array"
  THEN JSObject([k \in DOMAIN v.f |->
                   IF k = name THEN JSArray([i \in 1 .. Len(v.f[k].a) |-> f(v.f[k].a[i])])
                   ELSE v.f[k]])
  ELSE v

\* The DFS-shape record with -110 written in for each missing price.
WithPrizePicksPrices(raw) ==
  LET odds == IF Prop(raw, "odds").t = "object" THEN Prop(raw, "odds")
              ELSE JSObject(NoFields)
  IN  JSObject([k \in DOMAIN raw.f \cup {"odds"} |->
                  IF k = "odds"
                  THEN WithDefault(WithDefault(odds, "over", JSNumber(Num(-110))),
                                   "under", JSNumber(Num(-110)))
                  ELSE raw.f[k]])

\* The exchange-shape record with "-110" written in for each missing
\* oddsAmerican and "0" for each missing line.
WithDraftKingsOutcome(outcome) ==
  WithDefault(WithDefault(outcome, "oddsAmerican", JSString("-110")), "line", JSString("0"))

WithDraftKingsOffer(offer) == OverElements(offer, "outcomes", WithDraftKingsOutcome)

WithDraftKingsPrices(raw) == OverElements(raw, "offers", WithDraftKingsOffer)

\* The aggregator-shape record with -110 written in for each missing price.
WithTheOddsApiOutcome(outcome) == WithDefault(outcome, "price", JSNumber(Num(-110)))

WithTheOddsApiMarket(market) == OverElements(market, "outcomes", WithTheOddsApiOutcome)

WithTheOddsApiBookmaker(bookmaker) ==
  OverElements(bookmaker, "markets", WithTheOddsApiMarket)

WithTheOddsApiPrices(raw) == OverElements(raw, "bookmakers", WithTheOddsApiBookmaker)

\* C28: a record that lacks the over or the under price is normalized as
\* the same record with -110 in the place of each missing price (and, for
\* the exchange shape, line "0" in the place of a missing line): the prop is
\* still emitted, its odds are the record's own prices or -110, and nothing
\* in it tells a substituted quote from a real one.
C28_MissingPriceDefaults ==
  /\ (call.fn = "normalizeAny" /\ call.raw \in PrizePicksRaws)
       => /\ ret = normalizeAny(WithPrizePicksPrices(call.raw), call.sportsbook)
          /\ (ret # JSNull /\ ret.f.sportsbook = JSString("PrizePicks"))
               => /\ ret.f.overOdds
                       \in {OptProp(Prop(call.raw, "odds"), "over"), JSNumber(Num(-110))}
                  /\ ret.f.underOdds
                       \in {OptProp(Prop(call.raw, "odds"), "under"), JSNumber(Num(-110))}
  /\ (call.fn = "normalizeAny" /\ call.raw \in DraftKingsRaws)
       => ret = normalizeAny(WithDraftKingsPrices(call.raw), call.sportsbook)
  /\ (call.fn = "normalizeTheOddsApi" /\ call.raw \in TheOddsApiRaws)
       => ret = Resolved(normalizeTheOddsApi(WithTheOddsApiPrices(call.raw),
                                             call.playerId, call.playerName))

\* A DFS-shape record with the over price only, emitted with the under
\* price -110.
C28_Witness ==
  /\ call.fn = "normalizeAny"
  /\ call.raw \in PrizePicksRaws
  /\ Prop(call.raw, "odds") = JSObject([over |-> JSNumber(Num(-115))])
  /\ ret # JSNull
  /\ ret.f.overOdds = JSNumber(Num(-115))
  /\ ret.f.underOdds = JSNumber(Num(-110))

\* ------------------------------------------------------------------------
\* C29: probability to American odds
\* ------------------------------------------------------------------------

ProbabilityToOddsCalls == {"convertProbabilityToAmerican", "convertProbabilityToFairOdds"}

\* For p in (0,1) the conversion returns odds <= -100 when p >= 0.5 and
\* odds >= +100 when p < 0.5.
FairOddsInRange ==
  (Greater(call.probability, Num(0)) /\ Less(call.probability, Num(1)))
    => /\ ~IsThrow(ret)
       /\ Geq(call.probability, Frac(1, 2)) => Leq(ret, Num(-100))
       /\ Less(call.probability, Frac(1, 2)) => Geq(ret, Num(100))

\* C29 (as stated): the probability-to-American conversion inverts
\* convertAmericanToProbability on every integer odds o <= -100 or o >= +100,
\* and for p in (0,1) its result is <= -100 when p >= 0.5 and >= +100 when
\* p < 0.5.
C29_InverseOnAllOdds ==
  call.fn \in ProbabilityToOddsCalls =>
    /\ \A o \in OddsRange :
         ((o <= -100 \/ o >= 100) /\ call.probability = convertAmericanToProbability(o))
           => ret = Num(o)
    /\ FairOddsInRange

\* C29 (amended): the conversion inverts convertAmericanToProbability on
\* every integer odds o <= -100 or o > +100; the implied probability 0.5 of
\* +100 is converted to -100; and the range of the result is as stated.
C29_InverseButEvenMoney ==
  call.fn \in ProbabilityToOddsCalls =>
    /\ \A o \in OddsRange :
         ((o <= -100 \/ o > 100) /\ call.probability = convertAmericanToProbability(o))
           => ret = Num(o)
    /\ call.probability = convertAmericanToProbability(100) => ret = Num(-100)
    /\ FairOddsInRange

\* The implied probability of +150 is converted back to +150.
C29_Witness ==
  /\ call.fn = "convertProbabilityToFairOdds"
  /\ call.probability = convertAmericanToProbability(150)
  /\ call.probability = Frac(2, 5)
  /\ ret = Num(150)

\* ------------------------------------------------------------------------
\* C30: the cache window of fetchOdds
\* ------------------------------------------------------------------------

\* The table held an NBA snapshot less than 30 minutes old when fetchOdds
\* was called.
RecentSnapshotStored ==
  \E i \in 1 .. Len(call.table0) :
    /\ call.table0[i].sport = "NBA"
    /\ Less(Sub(FetchNow, call.table0[i].created_at), Num(30))

\* A query or a request rejected, the events response was not ok or had no
\* list of events, or storePropsForGame threw.
FetchFailed ==
  \/ call.query = "rejects"
  \/ Len(call.responses) >= 1 /\ call.responses[1] \in {"rejects", "notOk", "notIterable"}
  \/ \E k \in 2 .. Len(call.responses) : call.responses[k] = "rejects"
  \/ \E k \in 1 .. Len(call.stores) : call.stores[k] \in {"rejects", "throws"}

\* C30: fetchOdds never throws.  When the snapshot query yields an NBA
\* snapshot less than 30 minutes old it returns success = true, cached = true
\* with no request sent and no row inserted; only otherwise does it request
\* the events and then the odds of each event in turn, skipping an event
\* whose response is not ok and handling the rest; and it returns
\* success = false exactly when a request or query failed.
C30_CacheWindowHonoured ==
  call.fn = "fetchOdds" =>
    /\ ~IsThrow(ret)
    /\ (call.query = "data" /\ RecentSnapshotStored)
         => /\ call.pc = "done"
            /\ ret.value.success /\ ret.value.cached
            /\ call.requests = <<>>
            /\ call.table = call.table0
    /\ (call.pc = "done" /\ ret.value.cached)
         => call.query = "data" /\ RecentSnapshotStored
    /\ \A k \in 1 .. Len(call.requests) :
         call.requests[k] = IF k = 1 THEN [path |-> "events", id |-> ""]
                            ELSE [path |-> "odds", id |-> call.events[k - 1].id]
    /\ call.table # call.table0 => Len(call.requests) >= 2
    /\ call.pc = "done" => (ret.value.success = FALSE <=> FetchFailed)
    /\ (call.pc = "done" /\ ret.value.success /\ ~ret.value.cached)
         => /\ Len(call.requests) = 1 + Len(call.events)
            /\ ret.value.gamesProcessed = Len(call.events)
            /\ ret.value.propsStored = Len(call.table) - Len(call.table0)

\* A run past the cache window in which the first event's response is not
\* ok and the second event's props are stored.
C30_Witness ==
  /\ call.fn = "fetchOdds" /\ call.pc = "done"
  /\ ~RecentSnapshotStored
  /\ call.responses = <<"ok", "notOk", "ok">>
  /\ call.stores = <<"inserted">>
  /\ ret.value.success /\ ~ret.value.cached
  /\ ret.value.gamesProcessed = 2
  /\ ret.value.propsStored = 1
  /\ Len(call.table) = Len(call.table0) + 1

============================================================================
